---- MODULE Spec2Model ----
(***************************************************************************)
(* MagicSpin360: the frame-generation and interpolation pipeline of the    *)
(* Gemini service (generate360Images, interpolateFrames and the helpers    *)
(* they call), as a state machine whose steps are the code between two     *)
(* awaits; the data-URL functions and buildBackgroundInstruction called   *)
(* on their own; and the components that hold state around the service:   *)
(* App, ImageDrawer and Viewer360, each with its handlers as steps.        *)
(*                                                                         *)
(* Strings are sequences of symbols.  The symbols "," ":" ";" and " " are  *)
(* the characters the code looks at; every other symbol stands for a run   *)
(* of characters that contains none of them.                               *)
(***************************************************************************)
EXTENDS Integers, Sequences, FiniteSets, TLC

VARIABLES
    apiKey,             \* the environment holds a Gemini API key
    cachedClient,       \* part_003: cachedClient is set
    mode,               \* "idle", "generate" (generate360Images), "interpolate" (interpolateFrames)
    pc,                 \* the await the running function is suspended at, or how it ended
    originalImageFile,  \* generate360Images: the uploaded file
    numFrames,          \* generate360Images: the requested frame count
    userPrompt,         \* generate360Images: the subject description
    style,              \* generate360Images: the chosen style
    backgroundOption,   \* generate360Images: the chosen background mode
    customBackground,   \* generate360Images: the custom background text
    masterPrompt,       \* generate360Images: the text createConsistentPrompt returned
    previousImagePart,  \* generate360Images: reference image of the next frame call
    previousAngle,      \* generate360Images: angle the reference image shows
    targetAngle,        \* generate360Images: angle of the frame being generated
    generatedImages,    \* generate360Images: the data URLs collected so far
    baseImages,         \* interpolateFrames: the input data URLs
    finalImages,        \* interpolateFrames: the output built so far
    i,                  \* loop index of the running function
    progress,           \* every LoadingProgress passed to onProgress, in order
    calls,              \* every ai.models.generateContent request issued, in order
    responses,          \* what each request answered, in order
    settled,            \* the promise the running function returned
    codecOp,            \* the data-URL function that was called, "idle" when none
    urlInput,           \* the data URL it was called with
    payloadInput,       \* the bytes that data URL was built from
    mimeInput,          \* the MIME type that data URL was built from
    codecResult,        \* what the data-URL function returned or threw
    instrOption,        \* buildBackgroundInstruction: the option it was called with
    instrCustom,        \* buildBackgroundInstruction: the custom text it was called with
    instrResult,        \* buildBackgroundInstruction: what it returned
    appImageFile,       \* App: originalImageFile
    appImages,          \* App: generatedImages, each frame with the file it was made from
    loadingProgress,    \* App: loadingProgress
    isInterpolating,    \* App: isInterpolating
    appError,           \* App: error
    appBackground,      \* App: backgroundOption
    appCustomText,      \* App: customBackground
    appNumFrames,       \* App: numFrames
    inputMode,          \* App: inputMode
    previewUrl,         \* App: previewUrl, as the file the object URL was made for
    pendingRuns,        \* App: the service calls a handler is awaiting
    lastHandler,        \* App: the handler, or the continuation of one, that ran last
    lastOutcome,        \* App: how the last awaited service call settled: the number of
                        \* frames it resolved with, or the message it rejected with
    drawing,            \* ImageDrawer: drawing
    enhancedImage,      \* ImageDrawer: enhancedImage
    loading,            \* ImageDrawer: loading
    drawerPrompt,       \* ImageDrawer: prompt
    drawerError,        \* ImageDrawer: error
    pendingEnhance,     \* ImageDrawer: the enhanceDrawing calls handleEnhance is awaiting
    viewerImages,       \* Viewer360: the images prop
    currentFrame,       \* Viewer360: currentFrame
    isDragging,         \* Viewer360: isDragging
    isPlaying,          \* Viewer360: isPlaying
    startXRef,          \* Viewer360: startXRef.current
    startFrameRef       \* Viewer360: startFrameRef.current

vars == <<apiKey, cachedClient, mode, pc, originalImageFile, numFrames, userPrompt, style,
          backgroundOption, customBackground, masterPrompt,
          previousImagePart, previousAngle, targetAngle, generatedImages, baseImages,
          finalImages, i, progress, calls, responses, settled,
          codecOp, urlInput, payloadInput, mimeInput, codecResult,
          instrOption, instrCustom, instrResult,
          appImageFile, appImages, loadingProgress, isInterpolating, appError,
          appBackground, appCustomText, appNumFrames, inputMode, previewUrl,
          pendingRuns, lastHandler, lastOutcome,
          drawing, enhancedImage, loading, drawerPrompt, drawerError, pendingEnhance,
          viewerImages, currentFrame, isDragging, isPlaying, startXRef, startFrameRef>>

(***************************************************************************)
(* Bounds and program constants                                            *)
(***************************************************************************)
FRAME_COUNT_MIN == 4

FRAME_COUNT_MAX == 12

MaxBase == 4

Null == [null |-> TRUE]

Pending == [state |-> "pending"]

Resolved(v) == [state |-> "resolved", value |-> v]

Rejected(msg) == [state |-> "rejected", message |-> msg]

(***************************************************************************)
(* String helpers                                                          *)
(***************************************************************************)
\* String.prototype.indexOf(c, from), 1-based; 0 when c does not occur
IndexOf(s, c, from) ==
    LET hits == {k \in from..Len(s) : s[k] = c}
    IN  IF hits = {} THEN 0 ELSE CHOOSE k \in hits : \A h \in hits : k <= h

RECURSIVE Split(_, _)
\* String.prototype.split(sep) for a one-character separator
Split(s, sep) ==
    LET k == IndexOf(s, sep, 1)
    IN  IF k = 0 THEN <<s>>
        ELSE <<SubSeq(s, 1, k - 1)>> \o Split(SubSeq(s, k + 1, Len(s)), sep)

RECURSIVE TrimStart(_)
TrimStart(s) == IF s # <<>> /\ Head(s) = " " THEN TrimStart(Tail(s)) ELSE s

RECURSIVE TrimEnd(_)
TrimEnd(s) ==
    IF s # <<>> /\ s[Len(s)] = " " THEN TrimEnd(SubSeq(s, 1, Len(s) - 1)) ELSE s

\* String.prototype.trim()
Trim(s) == TrimEnd(TrimStart(s))

\* the characters "." of a regular expression does not match
LineTerminators == {"\n", "\r"}

\* header.match(/:(.*?);/): <<>> when nothing matches (null), else the match
\* array <<whole match, group 1>>: the match starts at the first ":" that a
\* ";" follows with no line terminator in between, and ends at the first ";"
\* after it
MimeMatch(header) ==
    LET starts == {c \in 1..Len(header) :
                      /\ header[c] = ":"
                      /\ \E e \in (c + 1)..Len(header) :
                             /\ header[e] = ";"
                             /\ \A k \in (c + 1)..(e - 1) : header[k] \notin LineTerminators}
    IN  IF starts = {} THEN <<>>
        ELSE LET c == CHOOSE c \in starts : \A d \in starts : c <= d
                 e == IndexOf(header, ";", c + 1)
             IN  <<SubSeq(header, c, e), SubSeq(header, c + 1, e - 1)>>

ParseError == [error |-> <<"Unable to parse data URL.">>]

\* the payload not looked at
parseDataUrl_NoPayloadCheck(dataUrl) ==
    LET pieces == Split(dataUrl, ",")
        mimeMatch == MimeMatch(pieces[1])
    IN  IF mimeMatch = <<>> THEN ParseError
        ELSE [base64Data |-> IF Len(pieces) < 2 THEN <<>> ELSE pieces[2],
              mimeType |-> mimeMatch[2]]

\* part_001 parseDataUrl; a throw is the value ParseError.  pieces[2]
\* is base64Data, which is falsy when it is missing or empty
parseDataUrl(dataUrl) ==
    LET Destructured(pieces) ==
            LET header == pieces[1]
                mimeMatch == MimeMatch(header)
            IN  IF mimeMatch = <<>> \/ Len(pieces) < 2 \/ pieces[2] = <<>>
                THEN ParseError
                ELSE [base64Data |-> pieces[2], mimeType |-> mimeMatch[2]]
    IN  CHOOSE parsed \in {Destructured(pieces) : pieces \in {Split(dataUrl, ",")}} : TRUE

\* part_002 dataUrlToInlineDataPart; a throw is ParseError
dataUrlToInlineDataPart(dataUrl) ==
    LET parsed == parseDataUrl(dataUrl)
    IN  IF parsed = ParseError THEN ParseError
        ELSE [inlineData |-> [data |-> parsed.base64Data, mimeType |-> parsed.mimeType]]

\* part_004 inlineDataToDataUrl
inlineDataToDataUrl(part) ==
    <<"data", ":">> \o part.inlineData.mimeType \o <<";", "base64", ",">>
        \o part.inlineData.data

(***************************************************************************)
(* Reading the uploaded file                                               *)
(***************************************************************************)
\* the base64 alphabet: digit v is Base64Alphabet[v + 1]
Base64Alphabet ==
    <<"A", "B", "C", "D", "E", "F", "G", "H", "I", "J", "K", "L", "M", "N", "O", "P",
      "Q", "R", "S", "T", "U", "V", "W", "X", "Y", "Z", "a", "b", "c", "d", "e", "f",
      "g", "h", "i", "j", "k", "l", "m", "n", "o", "p", "q", "r", "s", "t", "u", "v",
      "w", "x", "y", "z", "0", "1", "2", "3", "4", "5", "6", "7", "8", "9", "+", "/">>

Digit(v) == Base64Alphabet[v + 1]

RECURSIVE Btoa(_)
\* base64 of a byte sequence: one digit per 6 bits, "=" padding
Btoa(bytes) ==
    IF bytes = <<>> THEN <<>>
    ELSE IF Len(bytes) = 1
         THEN <<Digit(bytes[1] \div 4), Digit((bytes[1] % 4) * 16), "=", "=">>
    ELSE IF Len(bytes) = 2
         THEN <<Digit(bytes[1] \div 4), Digit((bytes[1] % 4) * 16 + bytes[2] \div 16),
                Digit((bytes[2] % 16) * 4), "=">>
    ELSE <<Digit(bytes[1] \div 4), Digit((bytes[1] % 4) * 16 + bytes[2] \div 16),
           Digit((bytes[2] % 16) * 4 + bytes[3] \div 64), Digit(bytes[3] % 64)>>
         \o Btoa(SubSeq(bytes, 4, Len(bytes)))

\* FileReader.readAsDataURL
ReadAsDataURL(file) ==
    <<"data", ":">> \o file.type \o <<";", "base64", ",">> \o Btoa(file.bytes)

\* the files a user can upload: a two-byte image and an empty file
Files ==
    { [type |-> <<"image/png">>, bytes |-> <<137, 80>>],
      [type |-> <<"image/png">>, bytes |-> <<>>] }

\* how a FileReader can end: loaded with a string result, loaded with a
\* non-string result, or an error
ReadOutcomes == {"load", "nonstring", "error"}

\* part_002 fileToInlineDataPart: the part it resolves with,
\* or [error |-> message] when it rejects
fileToInlineDataPart(file, outcome) ==
    IF outcome = "error" THEN [error |-> <<"Failed to read the file.">>]
    ELSE IF outcome = "nonstring"
         THEN [error |-> <<"Unable to read file as base64 string.">>]
    ELSE LET pieces == Split(ReadAsDataURL(file), ",")
         IN  IF Len(pieces) < 2 \/ pieces[2] = <<>>
             THEN [error |-> <<"File did not produce a valid data URL payload.">>]
             ELSE [inlineData |-> [data |-> pieces[2], mimeType |-> file.type]]

(***************************************************************************)
(* dataUrlToFile                                                           *)
(***************************************************************************)
AsciiWhitespace == {" ", "\n", "\r", "\t"}

\* the value of a base64 digit, -1 for any other character
DigitValue(ch) ==
    LET hits == {v \in 0..63 : Base64Alphabet[v + 1] = ch}
    IN  IF hits = {} THEN 0 - 1 ELSE CHOOSE v \in hits : TRUE

RECURSIVE DecodeDigits(_)
\* the bytes of a sequence of base64 digit values: three per four digits; the
\* bits left over at the end are dropped
DecodeDigits(d) ==
    IF Len(d) < 2 THEN <<>>
    ELSE IF Len(d) = 2 THEN <<d[1] * 4 + d[2] \div 16>>
    ELSE IF Len(d) = 3
         THEN <<d[1] * 4 + d[2] \div 16, (d[2] % 16) * 16 + d[3] \div 4>>
    ELSE <<d[1] * 4 + d[2] \div 16, (d[2] % 16) * 16 + d[3] \div 4, (d[3] % 4) * 64 + d[4]>>
         \o DecodeDigits(SubSeq(d, 5, Len(d)))

\* atob: whitespace is removed, then one or two "=" at the end of a string
\* whose length is a multiple of four; [error |-> ...] when what is left has a
\* character outside the alphabet or a length of 4k+1
Atob(str) ==
    LET stripped == SelectSeq(str, LAMBDA ch : ch \notin AsciiWhitespace)
        n == Len(stripped)
        pad == IF n % 4 = 0 /\ n >= 2 /\ stripped[n] = "="
               THEN (IF stripped[n - 1] = "=" THEN 2 ELSE 1) ELSE 0
        body == SubSeq(stripped, 1, n - pad)
    IN  IF Len(body) % 4 = 1 \/ \E k \in 1..Len(body) : DigitValue(body[k]) < 0
        THEN [error |-> <<"InvalidCharacterError">>]
        ELSE [bytes |-> DecodeDigits([k \in 1..Len(body) |-> DigitValue(body[k])])]

\* the ASCII lower case of a run of characters
AsciiLowerCase(sym) ==
    CASE sym = "Image/PNG" -> "image/png"
      [] sym = "Text/Plain" -> "text/plain"
      [] OTHER -> sym

\* new File([bytes], filename, {type}): the type is stored in lower case
NewFile(bytes, filename, type) ==
    [bytes |-> bytes, name |-> filename,
     type |-> [k \in 1..Len(type) |-> AsciiLowerCase(type[k])]]

\* the options argument forgotten
dataUrlToFile_NoType(dataUrl, filename) ==
    LET parsed == parseDataUrl(dataUrl)
    IN  IF parsed = ParseError THEN ParseError
        ELSE LET binaryString == Atob(parsed.base64Data)
             IN  IF "error" \in DOMAIN binaryString THEN binaryString
                 ELSE NewFile(binaryString.bytes, filename, <<>>)

\* part_001 dataUrlToFile; a throw is [error |-> message]
dataUrlToFile(dataUrl, filename) ==
    LET parsed == parseDataUrl(dataUrl)
    IN  IF parsed = ParseError THEN ParseError
        ELSE LET binaryString == Atob(parsed.base64Data)
             IN  IF "error" \in DOMAIN binaryString THEN binaryString
                 ELSE NewFile(binaryString.bytes, filename, parsed.mimeType)

(***************************************************************************)
(* The model backend                                                       *)
(***************************************************************************)
Thrown == [thrown |-> <<"Request failed.">>]

TextPart == [text |-> <<"caption">>]

\* the p-th inline image of the answer to request number k
ImagePart(k, p) ==
    [inlineData |-> [data |-> <<"image", ToString(k), ToString(p)>>, mimeType |-> <<"image/png">>]]

\* the shapes an answer to an image request can have
ImageResponseShapes ==
    {"throw", "noCandidates", "noParts", "textOnly", "nullInline", "secondCandidate", "image"}

\* the answer of that shape to request number k
ImageResponse(shape, k) ==
    CASE shape = "throw" -> Thrown
      [] shape = "noCandidates" -> [candidates |-> <<>>]
      [] shape = "noParts" -> [candidates |-> <<[content |-> [parts |-> <<>>]]>>]
      [] shape = "textOnly" -> [candidates |-> <<[content |-> [parts |-> <<TextPart>>]]>>]
      [] shape = "nullInline" ->
            [candidates |-> <<[content |-> [parts |-> <<[inlineData |-> Null], TextPart>>]]>>]
      [] shape = "secondCandidate" ->
            [candidates |-> <<[content |-> [parts |-> <<TextPart>>]],
                              [content |-> [parts |-> <<ImagePart(k, 1)>>]]>>]
      [] shape = "image" ->
            [candidates |-> <<[content |-> [parts |->
                                  <<TextPart, ImagePart(k, 1), ImagePart(k, 2)>>]]>>]

\* what the analysis request can answer: response.text is undefined (no text
\* field), empty, blank, a description with surrounding blanks, or a
\* description that names a style and a background
AnalysisResponses ==
    { Thrown,
      [candidates |-> <<>>],
      [text |-> <<>>],
      [text |-> <<" ", " ">>],
      [text |-> <<" ", "master", " ", "prompt", " ">>],
      [text |-> <<"A ", "Cartoon", " subject on a ", "Transparent", " background.">>] }

\* the last inline part taken instead of the first
extractInlineData_Last(response) ==
    LET parts == IF Len(response.candidates) >= 1
                 THEN response.candidates[1].content.parts ELSE <<>>
        hits == {k \in 1..Len(parts) :
                    "inlineData" \in DOMAIN parts[k] /\ parts[k].inlineData # Null}
    IN  IF hits = {} THEN Null
        ELSE LET k == CHOOSE k \in hits : \A h \in hits : k >= h
             IN  [inlineData |-> [data |-> parts[k].inlineData.data,
                                  mimeType |-> parts[k].inlineData.mimeType]]

\* part_004 extractInlineData
extractInlineData(response) ==
    LET parts == IF Len(response.candidates) >= 1
                 THEN response.candidates[1].content.parts ELSE <<>>
        hits == {k \in 1..Len(parts) :
                    "inlineData" \in DOMAIN parts[k] /\ parts[k].inlineData # Null}
    IN  IF hits = {} THEN Null
        ELSE LET k == CHOOSE k \in hits : \A h \in hits : k <= h
             IN  [inlineData |-> [data |-> parts[k].inlineData.data,
                                  mimeType |-> parts[k].inlineData.mimeType]]

\* part_004 ensureImage; a throw is [error |-> errorMessage]
ensureImage(response, errorMessage) ==
    LET imagePart == extractInlineData(response)
    IN  IF imagePart = Null THEN [error |-> errorMessage] ELSE imagePart

\* a client handed out without looking for the key
getGeminiClient_NoCheck == TRUE

\* part_003 getGeminiClient: TRUE when it returns a client, FALSE when it throws
getGeminiClient == cachedClient \/ apiKey

ConfigError == <<"Missing Gemini API key. Please set VITE_GEMINI_API_KEY in your environment.">>

(***************************************************************************)
(* createConsistentPrompt                                                  *)
(***************************************************************************)
\* the styles and subject descriptions a run is started with
Styles == {<<"Photorealistic">>, <<"Cartoon">>}

BackgroundOptions == {"Original", "Transparent", "Custom"}

CustomBackgrounds == {<<>>, <<"a sunny beach">>}

DEFAULT_PROMPT == <<"A high-quality image of this object">>

\* every mode answered with the default wording
buildBackgroundInstruction_AlwaysDefault(option, custom) ==
    <<"Preserve the exact background from the uploaded image.">>

\* every option gets the instruction written for "Original"
buildBackgroundInstruction_OriginalForAll(option, custom) ==
    <<"Preserve the exact background from the uploaded image.", " Do not change it.">>

\* part_002 buildBackgroundInstruction
buildBackgroundInstruction(option, custom) ==
    CASE option = "Original" ->
            <<"Preserve the exact background from the uploaded image.", " Do not change it.">>
      [] option = "Transparent" ->
            <<"The background must be perfectly ", "transparent",
              ". Only the subject should be visible.">>
      [] option = "Custom" ->
            <<"Use a detailed scene described as: \"">> \o custom \o
            <<"\". This background must remain static and consistent in perspective, lighting, and all elements across every frame.">>
      [] OTHER -> <<"Preserve the exact background from the uploaded image.">>

\* part_002 lines 39-65: analysisPrompt.  The fixed text is cut where a value
\* is inserted and around the option names it quotes.
AnalysisPromptText(subject, st, backgroundInstruction) ==
    <<"You are an expert prompt engineer ... 3. **Style is a Command:** The final output MUST be in the **\"">>
    \o st \o
    <<"\"** style. Your description should reflect this ... 4. **Background is Conditional:** * If the user chose '",
      "Original",
      "', you must describe and preserve the background from the image. * If the user chose '",
      "Custom", "' or a new '", "Style",
      "', you MUST IGNORE the original background and create a new one based on their choice. **USER'S SPECIFICATIONS:** - **Subject Description:** \"">>
    \o subject \o
    <<"\" - **Mandatory Artistic Style:** \"">>
    \o st \o
    <<"\" - **Background Instruction:** \"">>
    \o backgroundInstruction \o
    <<"\" **YOUR TASK:** ... 2. **Write a detailed, narrative description of this subject rendered in the user's chosen \"">>
    \o st \o
    <<"\" style.** 3. **Integrate the background** ... **OUTPUT FORMAT:** Produce ONLY the final master prompt text. No explanations, no preamble, no markdown.">>

(***************************************************************************)
(* generate360Images                                                       *)
(***************************************************************************)
\* the fraction is dropped
MathRound_Truncate(num, den) == num \div den

\* Math.round(num / den) for den > 0: floor(num/den + 1/2)
MathRound(num, den) == (2 * num + den) \div (2 * den)

\* the frames turned the other way round: from 360 degrees downwards
TargetAngle_Descending(idx, n) == MathRound((n - idx) * 360, n)

\* the angle of the earlier service version: frame idx at idx * 360 / n
TargetAngle_FromZero(idx, n) == MathRound(idx * 360, n)

\* line 156: Math.round((i + 1) * (360 / numFrames)).  The double
\* product is within 1e-12 of the exact quotient, which for the frame counts
\* the slider allows is never within 1/26 of a half, so the rounding is that of
\* the exact quotient.
TargetAngle(idx, n) == MathRound((idx + 1) * 360, n)

Progress(current, total, message) ==
    [current |-> current, total |-> total, message |-> message]

\* the analysis step left out of the total
GenTotalSteps_FramesOnly(n) == n

\* totalSteps of generate360Images
GenTotalSteps(n) == n + 1

\* frame completion reported with the step number of its start
FrameCompleteProgress_SameStep(idx, n) ==
    Progress(idx + 1, GenTotalSteps(n), <<"Frame ", ToString(idx + 1), " complete.">>)

\* the LoadingProgress emitted when frame idx completes
FrameCompleteProgress(idx, n) ==
    Progress(idx + 2, GenTotalSteps(n), <<"Frame ", ToString(idx + 1), " complete.">>)

\* frame start reported with the zero-based loop index
FrameStartProgress_ZeroBased(idx, n) ==
    Progress(idx, GenTotalSteps(n),
             <<"Generating frame ", ToString(idx + 1), " of ", ToString(n), " at ",
               ToString(TargetAngle(idx, n)), "°...">>)

\* the LoadingProgress emitted when frame idx starts
FrameStartProgress(idx, n) ==
    Progress(idx + 1, GenTotalSteps(n),
             <<"Generating frame ", ToString(idx + 1), " of ", ToString(n), " at ",
               ToString(TargetAngle(idx, n)), "°...">>)

\* the values framePrompt is built from
FramePrompt(master, prevAngle, angle) ==
    [master |-> master, previousAngle |-> prevAngle, targetAngle |-> angle]

\* a frame prompt that also names the frame being generated
FramePromptText_Numbered(master, prevAngle, angle) ==
    master \o
    <<"\n\n**ROTATION TASK:** Frame at ", ToString(angle), " degrees. ",
      "The provided image shows the subject at approximately a ",
      ToString(prevAngle),
      "-degree horizontal angle. Your task is to generate the next frame, rotating the subject to a ",
      ToString(angle),
      "-degree horizontal view. Maintain perfect consistency in style, lighting, scale, and background as described in the master prompt above. The rotation should be smooth and incremental. The subject must remain perfectly centered.">>

\* lines 165-167: the text of framePrompt
FramePromptText(master, prevAngle, angle) ==
    master \o
    <<"\n\n**ROTATION TASK:** The provided image shows the subject at approximately a ",
      ToString(prevAngle),
      "-degree horizontal angle. Your task is to generate the next frame, rotating the subject to a ",
      ToString(angle),
      "-degree horizontal view. Maintain perfect consistency in style, lighting, scale, and background as described in the master prompt above. The rotation should be smooth and incremental. The subject must remain perfectly centered.">>

FrameCall(idx, part, prompt, seen) ==
    [kind |-> "frame", index |-> idx, parts |-> <<part>>, prompt |-> prompt,
     text |-> FramePromptText(prompt.master, prompt.previousAngle, prompt.targetAngle),
     seen |-> seen]

\* the error message with the zero-based loop index as frame number
FrameErrorMessage_ZeroBased(idx, angle, reason) ==
    <<"Failed to generate frame ", ToString(idx), " at ", ToString(angle),
      " degrees. Reason: ">> \o reason

\* the message of the error a failed frame rejects with
FrameErrorMessage(idx, angle, reason) ==
    <<"Failed to generate frame ", ToString(idx + 1), " at ", ToString(angle), " degrees. Reason: ">> \o reason

sceneVars == <<userPrompt, style, backgroundOption, customBackground>>

genVars == <<originalImageFile, numFrames, sceneVars, masterPrompt, previousImagePart,
             previousAngle, targetAngle, generatedImages>>

interpVars == <<baseImages, finalImages>>

envVars == <<apiKey>>

codecVars == <<codecOp, urlInput, payloadInput, mimeInput, codecResult>>

instrVars == <<instrOption, instrCustom, instrResult>>

appVars == <<appImageFile, appImages, loadingProgress, isInterpolating, appError,
             appBackground, appCustomText, appNumFrames, inputMode, previewUrl,
             pendingRuns, lastHandler, lastOutcome>>

drawerVars == <<drawing, enhancedImage, loading, drawerPrompt, drawerError, pendingEnhance>>

viewerVars == <<viewerImages, currentFrame, isDragging, isPlaying, startXRef, startFrameRef>>

uiVars == <<instrVars, appVars, drawerVars, viewerVars>>

serviceVars == <<cachedClient, mode, pc, genVars, interpVars, i, progress, calls,
                 responses, settled>>

\* the function ends without settling its promise
Settle_NeverSettled(result) ==
    /\ pc' = "done"
    /\ settled' = Pending

\* the function ends: nothing further is issued
Settle(result) ==
    /\ pc' = "done"
    /\ settled' = result

\* generate360Images is called: lines 130-139, and createConsistentPrompt up
\* to its await of the file read
GenStart(file, subject, n, st, option, custom) ==
    /\ mode = "idle"
    /\ UNCHANGED <<codecVars, uiVars>>
    /\ mode' = "generate"
    /\ originalImageFile' = file
    /\ numFrames' = n
    /\ userPrompt' = subject
    /\ style' = st
    /\ backgroundOption' = option
    /\ customBackground' = custom
    /\ UNCHANGED <<apiKey, masterPrompt, previousImagePart, previousAngle, targetAngle,
                   generatedImages, interpVars, i, calls, responses>>
    /\ IF ~getGeminiClient
       THEN /\ Settle(Rejected(ConfigError))
            /\ UNCHANGED <<cachedClient, progress>>
       ELSE /\ cachedClient' = TRUE
            /\ progress' = <<Progress(0, GenTotalSteps(n), <<"Analyzing image & requirements...">>)>>
            /\ pc' = "analysisRead"
            /\ settled' = Pending

\* createConsistentPrompt: the file read ends; on success the analysis request
\* is issued
AnalysisReadDone(outcome) ==
    /\ mode = "generate" /\ pc = "analysisRead"
    /\ UNCHANGED <<codecVars, uiVars>>
    /\ UNCHANGED <<envVars, cachedClient, mode, genVars, interpVars, i, progress, responses>>
    /\ LET part == fileToInlineDataPart(originalImageFile, outcome)
       IN  IF "error" \in DOMAIN part
           THEN /\ Settle(Rejected(part.error))
                /\ UNCHANGED calls
           ELSE /\ calls' = Append(calls, [kind |-> "analysis", index |-> 0,
                                           parts |-> <<part>>, prompt |-> "analysisPrompt",
                                           text |-> AnalysisPromptText(userPrompt, style,
                                               buildBackgroundInstruction(backgroundOption,
                                                                          customBackground)),
                                           seen |-> Len(progress)])
                /\ pc' = "analysisCall"
                /\ UNCHANGED settled

\* the analysis request wrapped in a try block that swallows its error
AnalysisFailed_Swallowed(response) == FALSE

\* lines 139-145: the await of createConsistentPrompt stands in no try block,
\* so a request that throws rejects generate360Images
AnalysisFailed(response) == response = Thrown

\* part_002 line 77: response.text?.trim() ?? ""
MasterPromptOf(response) ==
    IF "text" \in DOMAIN response THEN Trim(response.text) ELSE <<>>

\* createConsistentPrompt returns (or throws); generate360Images lines 146-152
AnalysisCallDone(response) ==
    /\ mode = "generate" /\ pc = "analysisCall"
    /\ UNCHANGED <<codecVars, uiVars>>
    /\ responses' = Append(responses, response)
    /\ UNCHANGED <<envVars, cachedClient, mode, originalImageFile, numFrames, sceneVars,
                   previousImagePart, previousAngle, targetAngle, generatedImages,
                   interpVars, i, calls>>
    /\ IF AnalysisFailed(response)
       THEN /\ Settle(Rejected(Thrown.thrown))
            /\ UNCHANGED <<masterPrompt, progress>>
       ELSE /\ masterPrompt' = MasterPromptOf(response)
            /\ progress' = Append(progress,
                   Progress(1, GenTotalSteps(numFrames), <<"Analysis complete. Generating frames...">>))
            /\ pc' = "frameRead"
            /\ UNCHANGED settled

\* the request of a frame sent a second time
FrameIssue_Retried(idx, part, prevAngle, prog, cs) ==
    LET angle == TargetAngle(idx, numFrames)
        call == FrameCall(idx, part, FramePrompt(masterPrompt, prevAngle, angle), Len(prog) + 1)
    IN  /\ targetAngle' = angle
        /\ progress' = Append(prog, FrameStartProgress(idx, numFrames))
        /\ calls' = Append(Append(cs, call), call)
        /\ pc' = "frameCall"
        /\ UNCHANGED settled

\* lines 155-178 for frame idx: the progress event and the request
FrameIssue(idx, part, prevAngle, prog, cs) ==
    LET angle == TargetAngle(idx, numFrames)
    IN  /\ targetAngle' = angle
        /\ progress' = Append(prog, FrameStartProgress(idx, numFrames))
        /\ calls' = Append(cs, FrameCall(idx, part, FramePrompt(masterPrompt, prevAngle, angle),
                                        Len(prog) + 1))
        /\ pc' = "frameCall"
        /\ UNCHANGED settled

\* line 152: the second file read ends; lines 153-178 for frame 0
FrameReadDone(outcome) ==
    /\ mode = "generate" /\ pc = "frameRead"
    /\ UNCHANGED <<codecVars, uiVars>>
    /\ UNCHANGED <<envVars, cachedClient, mode, originalImageFile, numFrames, sceneVars,
                   masterPrompt, generatedImages, interpVars, responses>>
    /\ LET part == fileToInlineDataPart(originalImageFile, outcome)
       IN  IF "error" \in DOMAIN part
           THEN /\ Settle(Rejected(part.error))
                /\ UNCHANGED <<previousImagePart, previousAngle, targetAngle, i, progress, calls>>
           ELSE /\ previousImagePart' = part
                /\ previousAngle' = 0
                /\ i' = 0
                /\ IF 0 < numFrames
                   THEN FrameIssue(0, part, 0, progress, calls)
                   ELSE /\ Settle(Resolved(generatedImages))
                        /\ UNCHANGED <<targetAngle, progress, calls>>

\* every frame conditioned on the reference of the first one, as in the
\* earlier service version
NextReference_KeepFirst(previous, imagePart) == previous

\* line 186: the reference image of the next frame
NextReference(previous, imagePart) == imagePart

\* lines 180-204: the request of frame i answers
FrameCallDone(shape) ==
    /\ mode = "generate" /\ pc = "frameCall"
    /\ UNCHANGED <<codecVars, uiVars>>
    /\ UNCHANGED <<envVars, cachedClient, mode, originalImageFile, numFrames, sceneVars,
                   masterPrompt, interpVars>>
    /\ LET response == ImageResponse(shape, Len(calls))
           imagePart == IF response = Thrown THEN [error |-> Thrown.thrown]
                        ELSE ensureImage(response,
                                 <<"Frame ", ToString(i + 1), " generation failed: No image data returned.">>)
       IN  /\ responses' = Append(responses, response)
           /\ IF "error" \in DOMAIN imagePart
              THEN /\ Settle(Rejected(FrameErrorMessage(i, targetAngle, imagePart.error)))
                   /\ UNCHANGED <<previousImagePart, previousAngle, targetAngle,
                                  generatedImages, i, progress, calls>>
              ELSE LET images == Append(generatedImages, inlineDataToDataUrl(imagePart))
                       prog == Append(progress, FrameCompleteProgress(i, numFrames))
                   IN  /\ generatedImages' = images
                       /\ previousImagePart' = NextReference(previousImagePart, imagePart)
                       /\ previousAngle' = targetAngle
                       /\ i' = i + 1
                       /\ IF i + 1 < numFrames
                          THEN FrameIssue(i + 1, NextReference(previousImagePart, imagePart),
                                          targetAngle, prog, calls)
                          ELSE /\ progress' = prog
                               /\ Settle(Resolved(images))
                               /\ UNCHANGED <<targetAngle, calls>>

(***************************************************************************)
(* interpolateFrames                                                       *)
(***************************************************************************)
\* the data URL of base frame number k, as generate360Images builds it
BaseFrame(k) ==
    inlineDataToDataUrl([inlineData |-> [data |-> <<"frame", ToString(k)>>,
                                         mimeType |-> <<"image/png">>]])

\* a data URL with an empty payload, as a model answer with empty data gives
EmptyFrame == <<"data", ":", "image/png", ";", "base64", ",">>

\* a string that is no data URL
NotAUrl == <<"blob", ":", "frame">>

\* the string at position k of an input: base frame k, or a string
\* parseDataUrl rejects
InputFrame(k, what) ==
    CASE what = "frame" -> BaseFrame(k)
      [] what = "empty" -> EmptyFrame
      [] what = "notUrl" -> NotAUrl

\* the inputs of interpolateFrames: up to MaxBase strings
BaseInputs ==
    UNION { { [k \in 1..m |-> InputFrame(k, w[k])] :
                w \in [1..m -> {"frame", "empty", "notUrl"}] } : m \in 0..MaxBase }

\* line 236: the text sent with every pair
InterpolationPromptText ==
    <<"You are an expert in video frame interpolation. Your task is to generate a single intermediate frame that smoothly transitions between the two provided images. ... Output only the image.">>

\* totalSteps of interpolateFrames
InterpTotalSteps(base) == Len(base)

\* frameB without the wraparound: the last frame is paired with itself
PartnerIndex_NoWrap(idx, base) == IF idx + 1 < Len(base) THEN idx + 1 ELSE idx

\* line 223: the index of frameB for pair idx
PartnerIndex(idx, base) == (idx + 1) % Len(base)

\* pair progress counted from one
PairProgress_OneBased(idx, base) ==
    Progress(idx + 1, InterpTotalSteps(base),
             <<"Interpolating frame ", ToString(idx + 1), " of ",
               ToString(InterpTotalSteps(base)), "...">>)

\* the LoadingProgress emitted before pair idx is processed
PairProgress(idx, base) ==
    Progress(idx, InterpTotalSteps(base),
             <<"Interpolating frame ", ToString(idx + 1), " of ",
               ToString(InterpTotalSteps(base)), "...">>)

\* the LoadingProgress emitted after the loop
CompleteProgress(base) ==
    Progress(InterpTotalSteps(base), InterpTotalSteps(base), <<"Interpolation complete!">>)

\* a failed pair filled with a copy of its first frame
PushInterpolated_Fill(final, response) ==
    LET interpolated == IF response = Thrown THEN Null ELSE extractInlineData(response)
    IN  IF interpolated # Null
        THEN Append(final, inlineDataToDataUrl(interpolated))
        ELSE Append(final, final[Len(final)])

\* lines 245-254: what finalImages is once the request of a pair has answered
PushInterpolated(final, response) ==
    LET interpolated == IF response = Thrown THEN Null ELSE extractInlineData(response)
    IN  IF interpolated # Null
        THEN Append(final, inlineDataToDataUrl(interpolated))
        ELSE final

RECURSIVE InterpLoop_PushInTry(_, _, _, _, _)
\* the loop with finalImages.push(frameA) moved into the try block, after the
\* two frames are parsed
InterpLoop_PushInTry(base, idx, final, prog, cs) ==
    IF idx < Len(base)
    THEN LET prog1 == Append(prog, PairProgress(idx, base))
             frameA == base[idx + 1]
             frameB == base[PartnerIndex(idx, base) + 1]
             imagePartA == dataUrlToInlineDataPart(frameA)
             imagePartB == dataUrlToInlineDataPart(frameB)
         IN  IF imagePartA = ParseError \/ imagePartB = ParseError
             THEN InterpLoop_PushInTry(base, idx + 1, final, prog1, cs)
             ELSE [pc |-> "interpCall", i |-> idx, finalImages |-> Append(final, frameA),
                   progress |-> prog1,
                   calls |-> Append(cs, [kind |-> "interp", index |-> idx,
                                         parts |-> <<imagePartA, imagePartB>>,
                                         prompt |-> "interpolationPrompt",
                                         text |-> InterpolationPromptText,
                                         seen |-> Len(prog1)]),
                   settled |-> Pending]
    ELSE [pc |-> "done", i |-> idx, finalImages |-> final,
          progress |-> Append(prog, CompleteProgress(base)), calls |-> cs,
          settled |-> Resolved(final)]

RECURSIVE InterpLoop_NotAwaited(_, _, _, _, _)
\* the requests issued without awaiting them: the loop goes on to the next pair
InterpLoop_NotAwaited(base, idx, final, prog, cs) ==
    IF idx < Len(base)
    THEN LET prog1 == Append(prog, PairProgress(idx, base))
             frameA == base[idx + 1]
             frameB == base[PartnerIndex(idx, base) + 1]
             final1 == Append(final, frameA)
             imagePartA == dataUrlToInlineDataPart(frameA)
             imagePartB == dataUrlToInlineDataPart(frameB)
         IN  IF imagePartA = ParseError \/ imagePartB = ParseError
             THEN InterpLoop_NotAwaited(base, idx + 1, final1, prog1, cs)
             ELSE LET rest == InterpLoop_NotAwaited(base, idx + 1, final1, prog1,
                                  Append(cs, [kind |-> "interp", index |-> idx,
                                              parts |-> <<imagePartA, imagePartB>>,
                                              prompt |-> "interpolationPrompt",
                                              text |-> InterpolationPromptText,
                                              seen |-> Len(prog1)]))
                  IN  [pc |-> "interpCall", i |-> idx, finalImages |-> final1,
                       progress |-> prog1, calls |-> rest.calls, settled |-> Pending]
    ELSE [pc |-> "done", i |-> idx, finalImages |-> final,
          progress |-> Append(prog, CompleteProgress(base)), calls |-> cs,
          settled |-> Resolved(final)]

RECURSIVE InterpLoop(_, _, _, _, _)
\* lines 215-262 from the top of iteration idx to the next await or the return:
\* a pair whose frames do not parse is caught and skipped without a request
InterpLoop(base, idx, final, prog, cs) ==
    IF idx < Len(base)
    THEN LET prog1 == Append(prog, PairProgress(idx, base))
             frameA == base[idx + 1]
             frameB == base[PartnerIndex(idx, base) + 1]
             final1 == Append(final, frameA)
             imagePartA == dataUrlToInlineDataPart(frameA)
             imagePartB == dataUrlToInlineDataPart(frameB)
         IN  IF imagePartA = ParseError \/ imagePartB = ParseError
             THEN InterpLoop(base, idx + 1, final1, prog1, cs)
             ELSE [pc |-> "interpCall", i |-> idx, finalImages |-> final1, progress |-> prog1,
                   calls |-> Append(cs, [kind |-> "interp", index |-> idx,
                                         parts |-> <<imagePartA, imagePartB>>,
                                         prompt |-> "interpolationPrompt",
                                         text |-> InterpolationPromptText,
                                         seen |-> Len(prog1)]),
                   settled |-> Pending]
    ELSE [pc |-> "done", i |-> idx, finalImages |-> final,
          progress |-> Append(prog, CompleteProgress(base)), calls |-> cs,
          settled |-> Resolved(final)]

InterpApply(st) ==
    /\ pc' = st.pc
    /\ i' = st.i
    /\ finalImages' = st.finalImages
    /\ progress' = st.progress
    /\ calls' = st.calls
    /\ settled' = st.settled

\* interpolateFrames is called: lines 211-243 up to the first await
InterpStart(base) ==
    /\ mode = "idle"
    /\ UNCHANGED <<codecVars, uiVars>>
    /\ mode' = "interpolate"
    /\ baseImages' = base
    /\ UNCHANGED <<envVars, genVars, responses>>
    /\ IF ~getGeminiClient
       THEN /\ Settle(Rejected(ConfigError))
            /\ UNCHANGED <<cachedClient, finalImages, i, progress, calls>>
       ELSE /\ cachedClient' = TRUE
            /\ \E st \in {InterpLoop(base, 0, <<>>, <<>>, <<>>)} : InterpApply(st)

\* lines 245-255: the request of pair i answers; then the loop goes on
InterpCallDone(shape) ==
    /\ mode = "interpolate" /\ pc = "interpCall"
    /\ UNCHANGED <<codecVars, uiVars>>
    /\ UNCHANGED <<envVars, cachedClient, mode, genVars, baseImages>>
    /\ LET response == ImageResponse(shape, Len(calls))
       IN  /\ responses' = Append(responses, response)
           /\ \E st \in {InterpLoop(baseImages, i + 1,
                                      PushInterpolated(finalImages, response), progress, calls)} :
                  InterpApply(st)

(***************************************************************************)
(* generateSingleImage, editSingleImage, enhanceDrawing                    *)
(***************************************************************************)
SingleKinds == {"generateSingle", "edit", "enhance"}

\* the image handed to editSingleImage and enhanceDrawing
SourceImagePart ==
    [inlineData |-> [data |-> <<"sketch">>, mimeType |-> <<"image/png">>]]

SinglePrompts == {<<"a red car">>}

\* the parts of the one request each function issues
SingleParts(kind, prompt) ==
    CASE kind = "generateSingle" ->
            <<[text |-> <<"Generate a high-quality image based on this description: \"">>
                        \o prompt \o
                        <<"\". The subject should be centered with a clean or transparent background unless specified otherwise.">>]>>
      [] kind = "edit" ->
            <<SourceImagePart,
              [text |-> <<"Modify the uploaded image by following this instruction: \"">>
                        \o prompt \o
                        <<"\". Maintain the original style and composition.">>]>>
      [] kind = "enhance" ->
            <<SourceImagePart,
              [text |-> <<"You are an AI image generation assistant. ... The text prompt, \"">>
                        \o prompt \o
                        <<"\", should ONLY be used to define the artistic style, color, texture, and finer details. ...">>]>>

\* the message each function hands to ensureImage
SingleErrorMessage(kind) ==
    CASE kind = "generateSingle" -> <<"Image generation failed to produce an image.">>
      [] kind = "edit" -> <<"Image editing failed to return a new image.">>
      [] kind = "enhance" -> <<"Image enhancement failed to return an image.">>

\* one of the three functions is called: up to its await of the request
SingleStart(kind, prompt) ==
    /\ mode = "idle"
    /\ UNCHANGED <<codecVars, uiVars>>
    /\ mode' = kind
    /\ UNCHANGED <<apiKey, genVars, interpVars, i, progress, responses>>
    /\ IF ~getGeminiClient
       THEN /\ Settle(Rejected(ConfigError))
            /\ UNCHANGED <<cachedClient, calls>>
       ELSE LET parts == SingleParts(kind, prompt)
            IN  /\ cachedClient' = TRUE
                /\ calls' = <<[kind |-> kind, index |-> 0,
                               parts |-> SubSeq(parts, 1, Len(parts) - 1),
                               prompt |-> prompt,
                               text |-> parts[Len(parts)].text,
                               seen |-> Len(progress)]>>
                /\ pc' = "singleCall"
                /\ UNCHANGED settled

\* the request answers: ensureImage and inlineDataToDataUrl
SingleCallDone(shape) ==
    /\ mode \in SingleKinds /\ pc = "singleCall"
    /\ UNCHANGED <<codecVars, uiVars>>
    /\ UNCHANGED <<envVars, cachedClient, mode, genVars, interpVars, i, progress, calls>>
    /\ LET response == ImageResponse(shape, Len(calls))
           imagePart == IF response = Thrown THEN [error |-> Thrown.thrown]
                        ELSE ensureImage(response, SingleErrorMessage(mode))
       IN  /\ responses' = Append(responses, response)
           /\ IF "error" \in DOMAIN imagePart
              THEN Settle(Rejected(imagePart.error))
              ELSE Settle(Resolved(inlineDataToDataUrl(imagePart)))

\* the caller has its answer; the service is ready for the next call
Return ==
    /\ mode # "idle" /\ pc = "done"
    /\ UNCHANGED <<codecVars, uiVars>>
    /\ mode' = "idle"
    /\ pc' = "idle"
    /\ progress' = <<>>
    /\ calls' = <<>>
    /\ responses' = <<>>
    /\ settled' = Pending
    /\ originalImageFile' = Null
    /\ numFrames' = 0
    /\ userPrompt' = <<>>
    /\ style' = <<>>
    /\ backgroundOption' = ""
    /\ customBackground' = <<>>
    /\ masterPrompt' = <<>>
    /\ previousImagePart' = Null
    /\ previousAngle' = 0
    /\ targetAngle' = 0
    /\ generatedImages' = <<>>
    /\ baseImages' = <<>>
    /\ finalImages' = <<>>
    /\ i' = 0
    /\ UNCHANGED <<apiKey, cachedClient>>

(***************************************************************************)
(* Calls of parseDataUrl and dataUrlToFile                                 *)
(***************************************************************************)
MaxUrlLen == 4

MaxPayload == 3

\* the characters parseDataUrl tells apart, and "x" for any other
UrlAlphabet == {",", ":", ";", "\n", "x"}

UrlInputs == UNION { [1..m -> UrlAlphabet] : m \in 0..MaxUrlLen }

PayloadBytes == {0, 137, 255}

Payloads == UNION { [1..m -> PayloadBytes] : m \in 0..MaxPayload }

\* MIME types: plain, with upper-case letters, with a parameter
MimeTypes ==
    { <<"image/png">>, <<"Image/PNG">>, <<"text/plain", ";", "charset=utf-8">> }

\* 'data:<mime>;base64,<base64 of payload>'
BuildDataUrl(mime, bytes) ==
    inlineDataToDataUrl([inlineData |-> [data |-> Btoa(bytes), mimeType |-> mime]])

\* what a call returned (resolved) or threw (rejected)
Outcome(result) ==
    IF "error" \in DOMAIN result THEN Rejected(result.error) ELSE Resolved(result)

\* parseDataUrl is called with a string
CodecParse(url) ==
    /\ codecOp = "idle"
    /\ codecOp' = "parse"
    /\ urlInput' = url
    /\ codecResult' = Outcome(parseDataUrl(url))
    /\ UNCHANGED <<payloadInput, mimeInput, envVars, serviceVars, uiVars>>

\* dataUrlToFile is called with the data URL of a payload and a MIME type
CodecToFile(mime, bytes) ==
    /\ codecOp = "idle"
    /\ codecOp' = "toFile"
    /\ payloadInput' = bytes
    /\ mimeInput' = mime
    /\ urlInput' = BuildDataUrl(mime, bytes)
    /\ codecResult' = Outcome(dataUrlToFile(BuildDataUrl(mime, bytes), "drawing.png"))
    /\ UNCHANGED <<envVars, serviceVars, uiVars>>

\* the caller has its answer
CodecReturn ==
    /\ codecOp # "idle"
    /\ codecOp' = "idle"
    /\ urlInput' = <<>>
    /\ payloadInput' = <<>>
    /\ mimeInput' = <<>>
    /\ codecResult' = Pending
    /\ UNCHANGED <<envVars, serviceVars, uiVars>>

(***************************************************************************)
(* buildBackgroundInstruction called on its own, with options inside and   *)
(* outside the BackgroundOption enum                                       *)
(***************************************************************************)
MaxCustomLen == 3

\* values a caller that bypasses the type can pass as the option
UnlistedOptions == {"Blurred", "original", ""}

InstructionOptions == BackgroundOptions \cup UnlistedOptions

CustomAlphabet == {" ", "a", "sunny beach"}

CustomTexts == UNION { [1..m -> CustomAlphabet] : m \in 0..MaxCustomLen }

OtherThanInstruction == <<envVars, serviceVars, codecVars, appVars, drawerVars, viewerVars>>

InitInstruction ==
    /\ instrOption = "Original"
    /\ instrCustom = <<>>
    /\ instrResult = Pending

\* part_002 lines 7-21: the call and its return value
InstructionCall(option, custom) ==
    /\ instrResult = Pending
    /\ instrOption' = option
    /\ instrCustom' = custom
    /\ instrResult' = Resolved(buildBackgroundInstruction(option, custom))
    /\ UNCHANGED OtherThanInstruction

\* the caller takes the result
InstructionReturn ==
    /\ instrResult # Pending
    /\ instrOption' = "Original"
    /\ instrCustom' = <<>>
    /\ instrResult' = Pending
    /\ UNCHANGED OtherThanInstruction

(***************************************************************************)
(* App (src/src/components/ImageUploader.tsx): the state of the component  *)
(* and its handlers.  A handler that awaits a service call is two steps:   *)
(* the code up to the await, and the code after it, which runs when the    *)
(* call settles.  Between the two, any handler the page leaves enabled can *)
(* run.                                                                    *)
(***************************************************************************)
DEFAULT_FRAME_COUNT == 4

MaxAppFrames == 8

\* awaited calls kept at a time
MaxPendingRuns == 2

MaxPendingEnhance == 2

AppFiles == {[name |-> "a.png"], [name |-> "b.png"]}

\* the slider positions used
AppFrameCounts == {FRAME_COUNT_MIN, FRAME_COUNT_MIN + 1}

AppCustomTexts == {<<>>, <<" ", " ">>, <<"a sunny beach">>}

\* generate360Images rejects with an Error: among them the configuration
\* error and the error its frame loop builds
GenerateRejections ==
    { [name |-> "Error", message |-> msg] :
        msg \in {ConfigError, FrameErrorMessage(0, 90, Thrown.thrown)} }

\* interpolateFrames rejects only where it calls getGeminiClient
InterpolateRejections == { [name |-> "Error", message |-> ConfigError] }

\* the frames generate360Images resolves with, each one made from the file
GeneratedFrames(file, n) == [k \in 1..n |-> [source |-> file, kind |-> "frame"]]

\* the list interpolateFrames resolves with: every input frame, followed by
\* an in-between frame where the request gave one
Interleaved(base, inserted) ==
    LET F[k \in 0..Len(base)] ==
            IF k = 0 THEN <<>>
            ELSE F[k - 1] \o <<base[k]>> \o
                    (IF k \in inserted
                     THEN <<[source |-> base[k].source, kind |-> "between"]>>
                     ELSE <<>>)
    IN  F[Len(base)]

\* which requests of an interpolation gave a frame: all, none, the first
\* the steps a progress event is taken at: an early one and a late one
ProgressSteps == {1, FRAME_COUNT_MIN}

InsertionPatterns == {"all", "none", "first"}

Inserted(pattern, len) ==
    CASE pattern = "all" -> 1..len
      [] pattern = "none" -> {}
      [] pattern = "first" -> {1}

InitApp ==
    /\ appImageFile = Null
    /\ previewUrl = Null
    /\ appImages = <<>>
    /\ loadingProgress = Null
    /\ isInterpolating = FALSE
    /\ appError = Null
    /\ appBackground = "Original"
    /\ appCustomText = <<>>
    /\ inputMode = "upload"
    /\ appNumFrames = DEFAULT_FRAME_COUNT
    /\ pendingRuns = <<>>
    /\ lastHandler = "none"
    /\ lastOutcome = Pending

OtherThanApp == <<envVars, serviceVars, codecVars, instrVars, drawerVars, viewerVars>>

\* the Generate button is disabled for any of the three reasons
isGenerateDisabled_IgnoresLoading == appImageFile = Null

\* lines 259-260
isGenerateDisabled ==
    appImageFile = Null \/ loadingProgress # Null \/ isInterpolating

\* lines 263-305, renderOutput: the Double Frames button is on the page and
\* enabled
DoubleFramesEnabled ==
    /\ loadingProgress = Null
    /\ appError = Null
    /\ Len(appImages) > 0
    /\ ~(isInterpolating \/ loadingProgress # Null)

\* the custom text counts as missing only when it has no character at all
CustomTextMissing_EmptyOnly == appBackground = "Custom" /\ appCustomText = <<>>

\* line 173: backgroundOption === "Custom" && !customBackground.trim()
CustomTextMissing == appBackground = "Custom" /\ Trim(appCustomText) = <<>>

\* the fallback text is shown whatever was caught
CaughtMessage_AlwaysFallback(err, fallback) == fallback

\* lines 199-203, 238-242: err instanceof Error ? err.message : fallback
CaughtMessage(err, fallback) ==
    IF err.name = "Error" THEN err.message ELSE fallback

Without(runs, j) == SubSeq(runs, 1, j - 1) \o SubSeq(runs, j + 1, Len(runs))

\* lines 154-165; the upload, generate and draw panels all call it, and none
\* of them is disabled while a run is pending
handleImageUpload(file) ==
    /\ appImageFile' = file
    /\ appImages' = <<>>
    /\ appError' = Null
    /\ inputMode' = "upload"
    /\ previewUrl' = file
    /\ lastHandler' = "handleImageUpload"
    /\ UNCHANGED <<loadingProgress, isInterpolating, appBackground, appCustomText,
                   appNumFrames, pendingRuns, lastOutcome, OtherThanApp>>

\* the frame count slider
setNumFrames(n) ==
    /\ appNumFrames' = n
    /\ lastHandler' = "setNumFrames"
    /\ UNCHANGED <<appImageFile, previewUrl, appImages, loadingProgress, isInterpolating,
                   appError, appBackground, appCustomText, inputMode, pendingRuns,
                   lastOutcome, OtherThanApp>>

\* the background radio buttons
setBackgroundOption(option) ==
    /\ appBackground' = option
    /\ lastHandler' = "setBackgroundOption"
    /\ UNCHANGED <<appImageFile, previewUrl, appImages, loadingProgress, isInterpolating,
                   appError, appCustomText, appNumFrames, inputMode, pendingRuns,
                   lastOutcome, OtherThanApp>>

\* the custom background text area, on the page while showCustomBackground
setCustomBackground(custom) ==
    /\ appBackground = "Custom"
    /\ appCustomText' = custom
    /\ lastHandler' = "setCustomBackground"
    /\ UNCHANGED <<appImageFile, previewUrl, appImages, loadingProgress, isInterpolating,
                   appError, appBackground, appNumFrames, inputMode, pendingRuns,
                   lastOutcome, OtherThanApp>>

\* lines 167-195: the click on Generate, up to the await (the ellipsis
\* character of the two progress messages is written as three dots)
handleGenerate ==
    /\ ~isGenerateDisabled
    /\ Len(pendingRuns) < MaxPendingRuns
    /\ lastHandler' = "handleGenerate"
    /\ UNCHANGED <<appImageFile, previewUrl, isInterpolating, appBackground, appCustomText,
                   appNumFrames, inputMode, lastOutcome, OtherThanApp>>
    /\ IF appImageFile = Null
       THEN /\ appError' = [message |-> <<"Please upload, generate, or draw an image first.">>]
            /\ UNCHANGED <<appImages, loadingProgress, pendingRuns>>
       ELSE IF CustomTextMissing
       THEN /\ appError' = [message |-> <<"Please describe the custom background scene.">>]
            /\ UNCHANGED <<appImages, loadingProgress, pendingRuns>>
       ELSE /\ appError' = Null
            /\ appImages' = <<>>
            /\ loadingProgress' = [current |-> 0, total |-> appNumFrames + 1,
                                   message |-> <<"Initializing...">>]
            /\ pendingRuns' = Append(pendingRuns,
                                     [fn |-> "generate360Images", file |-> appImageFile,
                                      n |-> appNumFrames, option |-> appBackground,
                                      custom |-> appCustomText])

\* line 194: the callback handed to generate360Images
GenerateProgress(j, current) ==
    /\ j \in 1..Len(pendingRuns)
    /\ pendingRuns[j].fn = "generate360Images"
    /\ current <= pendingRuns[j].n + 1
    /\ loadingProgress' = [current |-> current, total |-> pendingRuns[j].n + 1,
                           message |-> <<"progress">>]
    /\ lastHandler' = "onProgress"
    /\ UNCHANGED <<appImageFile, previewUrl, appImages, isInterpolating, appError,
                   appBackground, appCustomText, appNumFrames, inputMode, pendingRuns,
                   lastOutcome, OtherThanApp>>

\* lines 187-196, 204-206: generate360Images resolved
GenerateResolved(j) ==
    /\ j \in 1..Len(pendingRuns)
    /\ pendingRuns[j].fn = "generate360Images"
    /\ \E images \in {GeneratedFrames(pendingRuns[j].file, pendingRuns[j].n)} :
            /\ appImages' = images
            /\ lastOutcome' = Resolved(Len(images))
    /\ loadingProgress' = Null
    /\ pendingRuns' = Without(pendingRuns, j)
    /\ lastHandler' = "generateResolved"
    /\ UNCHANGED <<appImageFile, previewUrl, isInterpolating, appError, appBackground,
                   appCustomText, appNumFrames, inputMode, OtherThanApp>>

\* lines 197-206: generate360Images rejected
GenerateRejected(j, err) ==
    /\ j \in 1..Len(pendingRuns)
    /\ pendingRuns[j].fn = "generate360Images"
    /\ appError' = [message |->
                        CaughtMessage(err, <<"An unknown error occurred during generation.">>)]
    /\ lastOutcome' = Rejected(err.message)
    /\ loadingProgress' = Null
    /\ pendingRuns' = Without(pendingRuns, j)
    /\ lastHandler' = "generateRejected"
    /\ UNCHANGED <<appImageFile, previewUrl, appImages, isInterpolating, appBackground,
                   appCustomText, appNumFrames, inputMode, OtherThanApp>>

\* lines 216-227: the click on Double Frames, up to the await
handleInterpolate ==
    /\ DoubleFramesEnabled
    /\ Len(pendingRuns) < MaxPendingRuns
    /\ 2 * Len(appImages) <= MaxAppFrames
    /\ lastHandler' = "handleInterpolate"
    /\ UNCHANGED <<appImageFile, previewUrl, appImages, appBackground, appCustomText,
                   appNumFrames, inputMode, lastOutcome, OtherThanApp>>
    /\ IF Len(appImages) = 0
       THEN UNCHANGED <<appError, isInterpolating, loadingProgress, pendingRuns>>
       ELSE /\ appError' = Null
            /\ isInterpolating' = TRUE
            /\ loadingProgress' = [current |-> 0, total |-> Len(appImages),
                                   message |-> <<"Initializing interpolation...">>]
            /\ pendingRuns' = Append(pendingRuns,
                                     [fn |-> "interpolateFrames", images |-> appImages])

\* lines 231-233: the callback handed to interpolateFrames
InterpolateProgress(j, current) ==
    /\ j \in 1..Len(pendingRuns)
    /\ pendingRuns[j].fn = "interpolateFrames"
    /\ current <= Len(pendingRuns[j].images)
    /\ loadingProgress' = [current |-> current, total |-> Len(pendingRuns[j].images),
                           message |-> <<"progress">>]
    /\ lastHandler' = "onProgress"
    /\ UNCHANGED <<appImageFile, previewUrl, appImages, isInterpolating, appError,
                   appBackground, appCustomText, appNumFrames, inputMode, pendingRuns,
                   lastOutcome, OtherThanApp>>

\* lines 229-236, 243-246: interpolateFrames resolved
InterpolateResolved(j, pattern) ==
    /\ j \in 1..Len(pendingRuns)
    /\ pendingRuns[j].fn = "interpolateFrames"
    /\ \E smootherImages \in {Interleaved(pendingRuns[j].images,
                                         Inserted(pattern, Len(pendingRuns[j].images)))} :
            /\ appImages' = smootherImages
            /\ lastOutcome' = Resolved(Len(smootherImages))
    /\ isInterpolating' = FALSE
    /\ loadingProgress' = Null
    /\ pendingRuns' = Without(pendingRuns, j)
    /\ lastHandler' = "interpolateResolved"
    /\ UNCHANGED <<appImageFile, previewUrl, appError, appBackground, appCustomText,
                   appNumFrames, inputMode, OtherThanApp>>

\* lines 237-246: interpolateFrames rejected
InterpolateRejected(j, err) ==
    /\ j \in 1..Len(pendingRuns)
    /\ pendingRuns[j].fn = "interpolateFrames"
    /\ appError' = [message |->
                        CaughtMessage(err, <<"An unknown error occurred during interpolation.">>)]
    /\ lastOutcome' = Rejected(err.message)
    /\ isInterpolating' = FALSE
    /\ loadingProgress' = Null
    /\ pendingRuns' = Without(pendingRuns, j)
    /\ lastHandler' = "interpolateRejected"
    /\ UNCHANGED <<appImageFile, previewUrl, appImages, appBackground, appCustomText,
                   appNumFrames, inputMode, OtherThanApp>>

(***************************************************************************)
(* ImageDrawer (part_000 lines 448-555)                                    *)
(***************************************************************************)
\* what the canvas gives for a finished stroke
DrawingUrls ==
    { <<"data", ":", "image/png", ";", "base64", ",", sketch>> : sketch \in {"sketch1", "sketch2", "sketch3"} }

\* what enhanceDrawing resolves with
EnhancedUrls == { <<"data", ":", "image/png", ";", "base64", ",", "enhanced">> }

DrawerPrompts == {<<>>, <<"a watercolor cat">>, <<"a photorealistic cat">>}

\* enhanceDrawing rejects with an Error: the configuration error, the error of
\* the request, or the error of ensureImage
EnhanceRejections ==
    { [name |-> "Error", message |-> msg] :
        msg \in {ConfigError, Thrown.thrown, SingleErrorMessage("enhance")} }

InitDrawer ==
    /\ drawing = Null
    /\ enhancedImage = Null
    /\ loading = FALSE
    /\ drawerPrompt = <<>>
    /\ drawerError = Null
    /\ pendingEnhance = <<>>

OtherThanDrawer == <<envVars, serviceVars, codecVars, instrVars, appVars, viewerVars>>

\* line 495
hasDrawing == drawing # Null

\* line 496
isViewingEnhanced == enhancedImage # Null

\* lines 506-510: the canvas is on the page
CanvasMounted == ~(isViewingEnhanced /\ ~loading)

\* lines 456-462, called by the canvas when a stroke ends
handleDrawingChange(dataUrl) ==
    /\ CanvasMounted
    /\ drawing' = [url |-> dataUrl]
    /\ enhancedImage' = IF enhancedImage # Null THEN Null ELSE enhancedImage
    /\ UNCHANGED <<loading, drawerPrompt, drawerError, pendingEnhance, OtherThanDrawer>>

\* lines 464-469, the Clear Canvas button (lines 518-521); the canvas calls
\* handleDrawingChange(null) from clear()
handleClear ==
    /\ ~isViewingEnhanced
    /\ hasDrawing
    /\ drawing' = Null
    /\ enhancedImage' = Null
    /\ drawerError' = Null
    /\ UNCHANGED <<loading, drawerPrompt, pendingEnhance, OtherThanDrawer>>

\* lines 514-517, the Edit Drawing button
EditDrawing ==
    /\ isViewingEnhanced
    /\ enhancedImage' = Null
    /\ UNCHANGED <<drawing, loading, drawerPrompt, drawerError, pendingEnhance,
                   OtherThanDrawer>>

\* lines 527-534, the prompt text area
setDrawerPrompt(text) ==
    /\ ~isViewingEnhanced
    /\ drawerPrompt' = text
    /\ UNCHANGED <<drawing, enhancedImage, loading, drawerError, pendingEnhance,
                   OtherThanDrawer>>

\* lines 471-478: the click on Enhance Drawing (lines 535-541), up to the await
handleEnhance ==
    /\ ~(loading \/ drawerPrompt = <<>> \/ ~hasDrawing \/ isViewingEnhanced)
    /\ Len(pendingEnhance) < MaxPendingEnhance
    /\ UNCHANGED <<drawing, enhancedImage, drawerPrompt, OtherThanDrawer>>
    /\ IF drawerPrompt = <<>> \/ drawing = Null
       THEN UNCHANGED <<loading, drawerError, pendingEnhance>>
       ELSE /\ loading' = TRUE
            /\ drawerError' = Null
            /\ \E pieces \in {Split(drawing.url, ",")} :
               \E mimeMatch \in {MimeMatch(pieces[1])} :
                    pendingEnhance' =
                        Append(pendingEnhance,
                               [base64Data |-> pieces[2],
                                mimeType |-> IF mimeMatch = <<>> \/ mimeMatch[2] = <<>>
                                             THEN <<"image/png">> ELSE mimeMatch[2],
                                prompt |-> drawerPrompt,
                                drawing |-> drawing.url])

\* lines 478-479, 482-484: enhanceDrawing resolved
EnhanceResolved(j, newImageUrl) ==
    /\ j \in 1..Len(pendingEnhance)
    /\ enhancedImage' = [url |-> newImageUrl]
    /\ loading' = FALSE
    /\ pendingEnhance' = Without(pendingEnhance, j)
    /\ UNCHANGED <<drawing, drawerPrompt, drawerError, OtherThanDrawer>>

\* lines 480-484: enhanceDrawing rejected
EnhanceRejected(j, err) ==
    /\ j \in 1..Len(pendingEnhance)
    /\ drawerError' = [message |->
                          CaughtMessage(err, <<"An unknown error occurred during enhancement.">>)]
    /\ loading' = FALSE
    /\ pendingEnhance' = Without(pendingEnhance, j)
    /\ UNCHANGED <<drawing, enhancedImage, drawerPrompt, OtherThanDrawer>>

(***************************************************************************)
(* Viewer360 (src/src/components/Viewer360.tsx)                            *)
(***************************************************************************)
MaxViewerFrames == 5

\* mouse positions and container widths, in pixels
ClientXs == {-400, -7, 0, 1, 50, 300}

ContainerWidths == {1, 100, 300}

DecimalDigits == <<"0", "1", "2", "3", "4", "5", "6", "7", "8", "9">>

\* the value of the range input: the decimal digits of a whole number
RECURSIVE DecimalString(_)
DecimalString(v) ==
    IF v < 10 THEN <<DecimalDigits[v + 1]>>
    ELSE DecimalString(v \div 10) \o <<DecimalDigits[(v % 10) + 1]>>

\* Number(str) for a string of decimal digits
RECURSIVE Number(_)
Number(str) ==
    IF str = <<>> THEN 0
    ELSE 10 * Number(SubSeq(str, 1, Len(str) - 1))
            + (CHOOSE d \in 0..9 : DecimalDigits[d + 1] = str[Len(str)])

\* lines 159-163: the range input gives the whole numbers from min to max
SliderValues(len) == { DecimalString(v) : v \in 0..(len - 1) }

\* the % of JavaScript: the result has the sign of the dividend
JsRemainder(a, b) == IF a >= 0 THEN a % b ELSE -((-a) % b)

\* the remainder is taken once
WrapFrame_SingleRemainder(nextFrame, len) == JsRemainder(nextFrame, len)

\* lines 45-46: ((nextFrame % images.length) + images.length) % images.length
WrapFrame(nextFrame, len) == JsRemainder(JsRemainder(nextFrame, len) + len, len)

InitViewer ==
    /\ viewerImages = <<>>
    /\ currentFrame = 0
    /\ isDragging = FALSE
    /\ isPlaying = FALSE
    /\ startXRef = 0
    /\ startFrameRef = 0

OtherThanViewer == <<envVars, serviceVars, codecVars, instrVars, appVars, drawerVars>>

\* lines 7-13: the component is mounted with its images
ViewerMount(len) ==
    /\ viewerImages = <<>>
    /\ viewerImages' = [k \in 1..len |-> <<"frame", k>>]
    /\ currentFrame' = 0
    /\ isDragging' = FALSE
    /\ isPlaying' = FALSE
    /\ startXRef' = 0
    /\ startFrameRef' = 0
    /\ UNCHANGED OtherThanViewer

\* lines 16-26
handleMouseDown(clientX) ==
    /\ viewerImages # <<>>
    /\ isPlaying' = FALSE
    /\ isDragging' = TRUE
    /\ startXRef' = clientX
    /\ startFrameRef' = currentFrame
    /\ UNCHANGED <<viewerImages, currentFrame, OtherThanViewer>>

\* lines 28-33; the listener is on the window while isDragging (lines 83-93)
handleMouseUp ==
    /\ isDragging
    /\ isDragging' = FALSE
    /\ UNCHANGED <<viewerImages, currentFrame, isPlaying, startXRef, startFrameRef,
                   OtherThanViewer>>

\* Math.round((dx / containerWidth) * images.length * sensitivity): the
\* product is computed in floating point, so where the exact value is a whole
\* number plus one half the product can fall just below it and round down
FrameChanges(num, den) ==
    IF 2 * (num % den) = den
    THEN {MathRound(num, den) - 1, MathRound(num, den)}
    ELSE {MathRound(num, den)}

\* lines 35-50; the listener is on the window while isDragging (lines 83-93)
handleMouseMove(clientX, containerWidth) ==
    /\ isDragging
    /\ LET sensitivity == 3
           dx == clientX - startXRef
       IN  \E frameChange \in FrameChanges(dx * Len(viewerImages) * sensitivity, containerWidth) :
                LET nextFrame == startFrameRef - frameChange
                    newFrame == WrapFrame(nextFrame, Len(viewerImages))
                IN  currentFrame' = newFrame
    /\ UNCHANGED <<viewerImages, isDragging, isPlaying, startXRef, startFrameRef,
                   OtherThanViewer>>

\* lines 56-59
handleSliderChange(value) ==
    /\ value \in SliderValues(Len(viewerImages))
    /\ isPlaying' = FALSE
    /\ currentFrame' = Number(value)
    /\ UNCHANGED <<viewerImages, isDragging, startXRef, startFrameRef, OtherThanViewer>>

\* lines 61-63
togglePlay ==
    /\ viewerImages # <<>>
    /\ isPlaying' = ~isPlaying
    /\ UNCHANGED <<viewerImages, currentFrame, isDragging, startXRef, startFrameRef,
                   OtherThanViewer>>

\* lines 65-70: the interval set while isPlaying fires
AutoplayTick ==
    /\ isPlaying
    /\ currentFrame' = (currentFrame + 1) % Len(viewerImages)
    /\ UNCHANGED <<viewerImages, isDragging, isPlaying, startXRef, startFrameRef,
                   OtherThanViewer>>

Init ==
    /\ apiKey \in BOOLEAN
    /\ cachedClient = FALSE
    /\ mode = "idle"
    /\ pc = "idle"
    /\ originalImageFile = Null
    /\ numFrames = 0
    /\ userPrompt = <<>>
    /\ style = <<>>
    /\ backgroundOption = ""
    /\ customBackground = <<>>
    /\ masterPrompt = <<>>
    /\ previousImagePart = Null
    /\ previousAngle = 0
    /\ targetAngle = 0
    /\ generatedImages = <<>>
    /\ baseImages = <<>>
    /\ finalImages = <<>>
    /\ i = 0
    /\ progress = <<>>
    /\ calls = <<>>
    /\ responses = <<>>
    /\ settled = Pending
    /\ codecOp = "idle"
    /\ urlInput = <<>>
    /\ payloadInput = <<>>
    /\ mimeInput = <<>>
    /\ codecResult = Pending
    /\ InitInstruction
    /\ InitApp
    /\ InitDrawer
    /\ InitViewer

Next ==
    \/ \E file \in Files, n \in FRAME_COUNT_MIN..FRAME_COUNT_MAX, st \in Styles,
          option \in BackgroundOptions, custom \in CustomBackgrounds :
            GenStart(file, DEFAULT_PROMPT, n, st, option, custom)
    \/ \E outcome \in ReadOutcomes : AnalysisReadDone(outcome)
    \/ \E response \in AnalysisResponses : AnalysisCallDone(response)
    \/ \E outcome \in ReadOutcomes : FrameReadDone(outcome)
    \/ \E shape \in ImageResponseShapes : FrameCallDone(shape)
    \/ \E base \in BaseInputs : InterpStart(base)
    \/ \E shape \in ImageResponseShapes : InterpCallDone(shape)
    \/ \E kind \in SingleKinds, prompt \in SinglePrompts : SingleStart(kind, prompt)
    \/ \E shape \in ImageResponseShapes : SingleCallDone(shape)
    \/ Return

Spec == Init /\ [][Next]_vars

\* one answer for each way a request can end: it throws, it answers without
\* an image, it answers with images
OutcomeShapes == {"throw", "textOnly", "image"}

\* the steps of Next for runs started with the scene the UI starts with and
\* answered in one of the three ways: the scene goes into the prompt texts
\* only, and the other answers without an image take the path of "textOnly"
NextDefaultScene ==
    \/ \E file \in Files, n \in FRAME_COUNT_MIN..FRAME_COUNT_MAX :
            GenStart(file, DEFAULT_PROMPT, n, <<"Photorealistic">>, "Original", <<>>)
    \/ \E outcome \in ReadOutcomes : AnalysisReadDone(outcome)
    \/ \E response \in AnalysisResponses : AnalysisCallDone(response)
    \/ \E outcome \in ReadOutcomes : FrameReadDone(outcome)
    \/ \E shape \in OutcomeShapes : FrameCallDone(shape)
    \/ \E base \in BaseInputs : InterpStart(base)
    \/ \E shape \in OutcomeShapes : InterpCallDone(shape)
    \/ \E kind \in SingleKinds, prompt \in SinglePrompts : SingleStart(kind, prompt)
    \/ \E shape \in OutcomeShapes : SingleCallDone(shape)
    \/ Return

\* every file read and every request that was started ends, with a result or
\* with a failure
EnvironmentAnswers ==
    /\ WF_vars(\E outcome \in ReadOutcomes : AnalysisReadDone(outcome))
    /\ WF_vars(\E response \in AnalysisResponses : AnalysisCallDone(response))
    /\ WF_vars(\E outcome \in ReadOutcomes : FrameReadDone(outcome))
    /\ WF_vars(\E shape \in OutcomeShapes : FrameCallDone(shape))
    /\ WF_vars(\E shape \in OutcomeShapes : InterpCallDone(shape))
    /\ WF_vars(\E shape \in OutcomeShapes : SingleCallDone(shape))

FairSpec == Init /\ [][NextDefaultScene]_vars /\ EnvironmentAnswers

NextCodec ==
    \/ \E url \in UrlInputs : CodecParse(url)
    \/ \E mime \in MimeTypes, bytes \in Payloads : CodecToFile(mime, bytes)
    \/ CodecReturn

SpecCodec == Init /\ [][NextCodec]_vars

NextInstruction ==
    \/ \E option \in InstructionOptions, custom \in CustomTexts : InstructionCall(option, custom)
    \/ InstructionReturn

SpecInstruction == Init /\ [][NextInstruction]_vars

NextApp ==
    \/ \E file \in AppFiles : handleImageUpload(file)
    \/ \E n \in AppFrameCounts : setNumFrames(n)
    \/ \E option \in BackgroundOptions : setBackgroundOption(option)
    \/ \E custom \in AppCustomTexts : setCustomBackground(custom)
    \/ handleGenerate
    \/ \E j \in 1..MaxPendingRuns, current \in ProgressSteps : GenerateProgress(j, current)
    \/ \E j \in 1..MaxPendingRuns : GenerateResolved(j)
    \/ \E j \in 1..MaxPendingRuns, err \in GenerateRejections : GenerateRejected(j, err)
    \/ handleInterpolate
    \/ \E j \in 1..MaxPendingRuns, current \in ProgressSteps : InterpolateProgress(j, current)
    \/ \E j \in 1..MaxPendingRuns, pattern \in InsertionPatterns : InterpolateResolved(j, pattern)
    \/ \E j \in 1..MaxPendingRuns, err \in InterpolateRejections : InterpolateRejected(j, err)

SpecApp == Init /\ [][NextApp]_vars

NextDrawer ==
    \/ \E dataUrl \in DrawingUrls : handleDrawingChange(dataUrl)
    \/ handleClear
    \/ EditDrawing
    \/ \E text \in DrawerPrompts : setDrawerPrompt(text)
    \/ handleEnhance
    \/ \E j \in 1..MaxPendingEnhance, newImageUrl \in EnhancedUrls : EnhanceResolved(j, newImageUrl)
    \/ \E j \in 1..MaxPendingEnhance, err \in EnhanceRejections : EnhanceRejected(j, err)

SpecDrawer == Init /\ [][NextDrawer]_vars

NextViewer ==
    \/ \E len \in 1..MaxViewerFrames : ViewerMount(len)
    \/ \E clientX \in ClientXs : handleMouseDown(clientX)
    \/ handleMouseUp
    \/ \E clientX \in ClientXs, containerWidth \in ContainerWidths :
            handleMouseMove(clientX, containerWidth)
    \/ \E value \in SliderValues(MaxViewerFrames) : handleSliderChange(value)
    \/ togglePlay
    \/ AutoplayTick

SpecViewer == Init /\ [][NextViewer]_vars

(***************************************************************************)
(* Properties                                                              *)
(***************************************************************************)
\* the (current, total) pairs passed to onProgress, in order
ProgressPairs == [k \in 1..Len(progress) |-> <<progress[k].current, progress[k].total>>]

\* the answer carries an inline image in a part of its first candidate
GaveImage(response) ==
    /\ response # Thrown
    /\ Len(response.candidates) >= 1
    /\ \E p \in 1..Len(response.candidates[1].content.parts) :
           /\ "inlineData" \in DOMAIN response.candidates[1].content.parts[p]
           /\ response.candidates[1].content.parts[p].inlineData # Null

GenResolved == mode = "generate" /\ settled.state = "resolved"

InterpResolved == mode = "interpolate" /\ settled.state = "resolved"

\* round((i+1)*360/N), i = 0..N-1, for N = 4..12, computed by hand
AngleTable ==
    <<  <<>>, <<>>, <<>>,
        <<90, 180, 270, 360>>,
        <<72, 144, 216, 288, 360>>,
        <<60, 120, 180, 240, 300, 360>>,
        <<51, 103, 154, 206, 257, 309, 360>>,
        <<45, 90, 135, 180, 225, 270, 315, 360>>,
        <<40, 80, 120, 160, 200, 240, 280, 320, 360>>,
        <<36, 72, 108, 144, 180, 216, 252, 288, 324, 360>>,
        <<33, 65, 98, 131, 164, 196, 229, 262, 295, 327, 360>>,
        <<30, 60, 90, 120, 150, 180, 210, 240, 270, 300, 330, 360>> >>

\* the analysis request and numFrames frame requests were answered, the
\* first without throwing and the others with an image
AllCallsSucceeded ==
    /\ Len(responses) = numFrames + 1
    /\ responses[1] # Thrown
    /\ \A k \in 2..Len(responses) : GaveImage(responses[k])

\* C1: for every frame count N in 4..12, a run whose analysis request and N
\* frame requests all succeed resolves with exactly N images, and the request
\* of frame i (i = 0..N-1) asks for the angle round((i+1)*360/N); a run
\* resolves only in that case.
C1_ExactlyNFramesAtRoundedAngles ==
    /\ (mode = "generate" /\ pc = "done" /\ AllCallsSucceeded) =>
          /\ settled.state = "resolved"
          /\ Len(settled.value) = numFrames
          /\ Len(calls) = numFrames + 1
          /\ \A k \in 1..numFrames :
                /\ calls[k + 1].kind = "frame"
                /\ calls[k + 1].index = k - 1
                /\ calls[k + 1].prompt.targetAngle = AngleTable[numFrames][k]
                /\ -numFrames < 2 * (calls[k + 1].prompt.targetAngle * numFrames - k * 360)
                /\ 2 * (calls[k + 1].prompt.targetAngle * numFrames - k * 360) <= numFrames
    /\ GenResolved => AllCallsSucceeded

C1_Witness ==
    GenResolved /\ numFrames = 7 /\ Len(settled.value) = 7 /\ calls[3].prompt.targetAngle = 103

\* C2: when the request of a frame throws or answers without an image, the
\* run rejects and returns no frames, however many frames were generated
\* before, no further request is issued, and the rejection message carries
\* the failed frame's number (index + 1) and its target angle.
C2_AllOrNothing ==
    \A k \in 1..Len(responses) :
        (mode = "generate" /\ calls[k].kind = "frame" /\ ~GaveImage(responses[k])) =>
            /\ settled.state = "rejected"
            /\ "value" \notin DOMAIN settled
            /\ k = Len(calls)
            /\ Len(settled.message) >= 5
            /\ settled.message[2] = ToString(calls[k].index + 1)
            /\ settled.message[4] = ToString(AngleTable[numFrames][calls[k].index + 1])

C2_Witness ==
    /\ mode = "generate" /\ settled.state = "rejected"
    /\ Len(generatedImages) = 2
    /\ Len(responses) = 4 /\ ~GaveImage(responses[4])

\* C3 as claimed: a successful 4-frame run passes exactly the six pairs
\* (0,5),(1,5),(2,5),(3,5),(4,5),(5,5) to onProgress.
C3_SixEvents ==
    (GenResolved /\ numFrames = 4) =>
        ProgressPairs = << <<0, 5>>, <<1, 5>>, <<2, 5>>, <<3, 5>>, <<4, 5>>, <<5, 5>> >>

\* C3, amended: a successful 4-frame run passes exactly the ten pairs
\* (0,5),(1,5),(1,5),(2,5),(2,5),(3,5),(3,5),(4,5),(4,5),(5,5) to onProgress:
\* each of (1,5)..(4,5) twice in a row, once when a step completes and once
\* when the next frame starts.
C3_TenEvents ==
    (GenResolved /\ numFrames = 4) =>
        ProgressPairs = << <<0, 5>>, <<1, 5>>, <<1, 5>>, <<2, 5>>, <<2, 5>>,
                           <<3, 5>>, <<3, 5>>, <<4, 5>>, <<4, 5>>, <<5, 5>> >>

C3_Witness == GenResolved /\ numFrames = 4 /\ Len(progress) = 10

\* C4: when the analysis request throws, the run rejects with that error, no
\* frame request is issued, and the only progress event of the run is the
\* initial one with current = 0; the same holds when the master-prompt step
\* fails before its request, at the file read.
C4_AnalysisFailureStopsRun ==
    /\ (mode = "generate" /\ Len(responses) >= 1 /\ responses[1] = Thrown) =>
          /\ settled = Rejected(<<"Request failed.">>)
          /\ Len(calls) = 1 /\ calls[1].kind = "analysis"
          /\ ProgressPairs = << <<0, numFrames + 1>> >>
    /\ (mode = "generate" /\ settled.state = "rejected" /\ calls = <<>> /\ apiKey) =>
          ProgressPairs = << <<0, numFrames + 1>> >>

C4_Witness ==
    mode = "generate" /\ responses = <<Thrown>> /\ settled.state = "rejected"

\* C5 as claimed: no frame request is issued with an empty master prompt (an
\* analysis answer without text, or with empty or blank text, aborts the run).
C5_NoFrameWithEmptyMasterPrompt ==
    \A k \in 1..Len(calls) :
        (mode = "generate" /\ calls[k].kind = "frame") => calls[k].prompt.master # <<>>

\* the request issued for pair idx, 0 when none was
CallOf(idx) ==
    LET hits == {k \in 1..Len(calls) : calls[k].index = idx}
    IN  IF hits = {} THEN 0 ELSE CHOOSE k \in hits : TRUE

\* pair idx got its in-between frame
PairSucceeded(idx) ==
    /\ CallOf(idx) \in 1..Len(responses)
    /\ GaveImage(responses[CallOf(idx)])

\* the data URL of the first inline image of the answer to request k
FirstImageUrl(k) ==
    <<"data", ":", "image/png", ";", "base64", ",", "image", ToString(k), "1">>

\* C6: for an input of length M >= 2 whose M pair requests all answer with
\* an image, the result has length 2M, position 2i holds base frame i, and
\* position 2i+1 holds the image answered to the request made of base frame
\* i and base frame (i+1) mod M.
C6_DoubledWithWraparound ==
    LET M == Len(baseImages)
    IN  (InterpResolved /\ M >= 2 /\ \A idx \in 0..(M - 1) : PairSucceeded(idx)) =>
            /\ Len(settled.value) = 2 * M
            /\ \A idx \in 0..(M - 1) :
                  /\ settled.value[2 * idx + 1] = baseImages[idx + 1]
                  /\ settled.value[2 * idx + 2] = FirstImageUrl(CallOf(idx))
                  /\ inlineDataToDataUrl(calls[CallOf(idx)].parts[1]) = baseImages[idx + 1]
                  /\ inlineDataToDataUrl(calls[CallOf(idx)].parts[2])
                        = baseImages[((idx + 1) % M) + 1]

C6_Witness ==
    /\ InterpResolved /\ Len(baseImages) = 3 /\ Len(settled.value) = 6
    /\ inlineDataToDataUrl(calls[3].parts[2]) = baseImages[1]

\* the pairs that got no in-between frame
FailedPairs == {idx \in 0..(Len(baseImages) - 1) : ~PairSucceeded(idx)}

\* where base frame idx stands (1-based) when only pair k failed
PosWithout(idx, k) == 2 * idx + 1 - (IF idx > k THEN 1 ELSE 0)

\* C7: when exactly one pair k gets no in-between frame, the result has
\* length 2M-1: every base frame and every other pair's in-between frame,
\* in the order of the all-success result.
C7_OnlyFailedPairMissing ==
    LET M == Len(baseImages)
    IN  \A k \in 0..(M - 1) :
            (InterpResolved /\ FailedPairs = {k}) =>
                /\ Len(settled.value) = 2 * M - 1
                /\ \A idx \in 0..(M - 1) :
                      /\ settled.value[PosWithout(idx, k)] = baseImages[idx + 1]
                      /\ idx # k =>
                            settled.value[PosWithout(idx, k) + 1] = FirstImageUrl(CallOf(idx))

C7_Witness ==
    /\ InterpResolved /\ Len(baseImages) = 3 /\ FailedPairs = {1}
    /\ Len(responses) = 3 /\ responses[2] = Thrown

RECURSIVE IsSubseq(_, _)
\* a is a subsequence of b
IsSubseq(a, b) ==
    IF a = <<>> THEN TRUE
    ELSE IF b = <<>> THEN FALSE
    ELSE IF Head(a) = Head(b) THEN IsSubseq(Tail(a), Tail(b))
    ELSE IsSubseq(a, Tail(b))

\* C8: whatever pairs fail, interpolateFrames of M >= 1 frames resolves (it
\* rejects only for a missing API key, before any request) with between M
\* and 2M frames that contain the M base frames in their order.
C8_BestEffort ==
    LET M == Len(baseImages)
    IN  (mode = "interpolate") =>
            /\ settled.state = "rejected" => (~apiKey /\ calls = <<>> /\ settled.message = ConfigError)
            /\ (pc = "done" /\ apiKey) => settled.state = "resolved"
            /\ (settled.state = "resolved" /\ M >= 1) =>
                  /\ M <= Len(settled.value) /\ Len(settled.value) <= 2 * M
                  /\ IsSubseq(baseImages, settled.value)

C8_Witness ==
    /\ InterpResolved /\ Len(baseImages) = 3 /\ Cardinality(FailedPairs) = 2
    /\ Len(settled.value) = 4
    /\ baseImages[3] = EmptyFrame

\* C9: in interpolateFrames of M frames the event (i, M) is emitted before
\* the request of pair i is issued, and a run that ends has emitted exactly
\* (0,M), ..., (M-1,M) and then (M,M), whether or not any pair succeeded.
C9_PairProgressThenFinal ==
    LET M == Len(baseImages)
    IN  (mode = "interpolate") =>
            /\ \A k \in 1..Len(calls) :
                  \E j \in 1..calls[k].seen : ProgressPairs[j] = <<calls[k].index, M>>
            /\ settled.state = "resolved" =>
                  ProgressPairs = [j \in 1..(M + 1) |-> <<j - 1, M>>]

C9_Witness ==
    /\ InterpResolved /\ Len(baseImages) = 3 /\ FailedPairs = {0, 1, 2}
    /\ Len(calls) = 3 /\ Len(progress) = 4

\* C10: within one run the current of successive progress events never
\* decreases and every event has the same total: N+1 in generate360Images
\* of N frames, M in interpolateFrames of M frames.
C10_MonotoneCurrentFixedTotal ==
    /\ \A j, k \in 1..Len(progress) : j < k => progress[j].current <= progress[k].current
    /\ \A j \in 1..Len(progress) :
          progress[j].total = (IF mode = "generate" THEN numFrames + 1 ELSE Len(baseImages))

C10_Witness ==
    /\ mode = "generate" /\ numFrames = 5 /\ Len(progress) = 7
    /\ settled.state = "rejected"
\* the word w occurs in the text
Has(text, w) == \E k \in 1..Len(text) : text[k] = w

CartoonOnTransparent ==
    mode = "generate" /\ style = <<"Cartoon">> /\ backgroundOption = "Transparent"

\* C11 as stated: in a run with style "Cartoon" and background "Transparent"
\* the prompt text of every request contains "Transparent" and "Cartoon".
C11_LiteralWordsInEveryPrompt ==
    CartoonOnTransparent =>
        \A k \in 1..Len(calls) :
            Has(calls[k].text, "Cartoon") /\ Has(calls[k].text, "Transparent")

\* C11: in a run with style "Cartoon" and background "Transparent" the text of
\* the analysis request contains "Cartoon" and the instruction with the
\* lower-case word "transparent", never "Transparent"; the text of a frame
\* request contains "Cartoon" or "Transparent" exactly when the master prompt
\* the analysis returned does.
C11_StyleAndBackgroundReachPrompts ==
    CartoonOnTransparent =>
        \A k \in 1..Len(calls) :
            IF calls[k].kind = "analysis"
            THEN /\ Has(calls[k].text, "Cartoon")
                 /\ Has(calls[k].text, "transparent")
                 /\ ~Has(calls[k].text, "Transparent")
            ELSE /\ Has(calls[k].text, "Cartoon") <=> Has(calls[k].prompt.master, "Cartoon")
                 /\ Has(calls[k].text, "Transparent")
                        <=> Has(calls[k].prompt.master, "Transparent")

C11_Witness ==
    /\ CartoonOnTransparent
    /\ Len(calls) = numFrames + 1
    /\ ~Has(calls[Len(calls)].text, "Cartoon")
    /\ ~Has(calls[Len(calls)].text, "Transparent")

\* C12: with no API key configured, each of generate360Images,
\* interpolateFrames, generateSingleImage, editSingleImage and enhanceDrawing
\* rejects with the configuration error, and no request has been issued and no
\* progress event emitted.
C12_NoKeyFailsBeforeAnyCall ==
    (~apiKey /\ mode # "idle") =>
        /\ pc = "done"
        /\ settled = Rejected(ConfigError)
        /\ calls = <<>>
        /\ responses = <<>>
        /\ progress = <<>>

C12_Witness ==
    ~apiKey /\ mode = "enhance" /\ settled = Rejected(ConfigError)

\* the inputs the UI passes: any frame count of the slider; interpolation of
\* a non-empty sequence only (handleInterpolate returns early otherwise)
UICanPass ==
    \/ mode = "generate"
    \/ mode = "interpolate" /\ Len(baseImages) >= 1

\* C13: every progress event of generate360Images or interpolateFrames has
\* current >= 0, total > 0 and current <= total, for every input the UI can
\* pass.
C13_ProgressWithinBounds ==
    UICanPass =>
        \A k \in 1..Len(progress) :
            /\ progress[k].current >= 0
            /\ progress[k].total > 0
            /\ progress[k].current <= progress[k].total

C13_Witness ==
    /\ mode = "generate" /\ numFrames = FRAME_COUNT_MAX /\ pc = "done"
    /\ Len(progress) >= 1
    /\ progress[Len(progress)].current = progress[Len(progress)].total

\* the part of a string before its first comma, the whole string when it has none
BeforeComma(str) ==
    IF IndexOf(str, ",", 1) = 0 THEN str ELSE SubSeq(str, 1, IndexOf(str, ",", 1) - 1)

\* the part of a string after its first comma
AfterComma(str) == SubSeq(str, IndexOf(str, ",", 1) + 1, Len(str))

\* the string has a ":", then characters of one line, then a ";"
HasTypePattern(str) ==
    \E c \in 1..Len(str) : \E e \in (c + 1)..Len(str) :
        /\ str[c] = ":"
        /\ str[e] = ";"
        /\ \A k \in (c + 1)..(e - 1) : str[k] \notin LineTerminators

\* C14: parseDataUrl throws its error, and returns nothing, on every input
\* with no comma, on every input whose part before the comma has no
\* ':<type>;' pattern, and on every input with nothing after the comma.
C14_ParseRejectsMalformed ==
    (/\ codecOp = "parse"
     /\ \/ IndexOf(urlInput, ",", 1) = 0
        \/ ~HasTypePattern(BeforeComma(urlInput))
        \/ AfterComma(urlInput) = <<>>)
    => codecResult = Rejected(<<"Unable to parse data URL.">>)

C14_Witness ==
    /\ codecOp = "parse"
    /\ urlInput = <<":", ";", ",">>
    /\ codecResult.state = "rejected"

\* the MIME type in lower case, cut before its first ";"
StoredType(mime) ==
    LET cut == IF IndexOf(mime, ";", 1) = 0 THEN mime
               ELSE SubSeq(mime, 1, IndexOf(mime, ";", 1) - 1)
    IN  [k \in 1..Len(cut) |-> IF cut[k] = "Image/PNG" THEN "image/png" ELSE cut[k]]

\* C15 as stated: for any non-empty payload and any MIME type, dataUrlToFile of
\* 'data:<mime>;base64,<base64 of payload>' is a file with the bytes of the
\* payload and the MIME type as its type.
C15_RoundTripAnyMime ==
    (codecOp = "toFile" /\ payloadInput # <<>>) =>
        /\ codecResult.state = "resolved"
        /\ codecResult.value.bytes = payloadInput
        /\ codecResult.value.type = mimeInput

\* C15: for any non-empty payload and any MIME type, dataUrlToFile of
\* 'data:<mime>;base64,<base64 of payload>' is a file with the bytes of the
\* payload; its type is the MIME type in lower case cut before its first ";",
\* which is the MIME type itself when that is lower case and has no parameter.
C15_RoundTripBytesAndBareType ==
    (codecOp = "toFile" /\ payloadInput # <<>>) =>
        /\ codecResult.state = "resolved"
        /\ codecResult.value.bytes = payloadInput
        /\ codecResult.value.type = StoredType(mimeInput)
        /\ mimeInput = <<"image/png">> => codecResult.value.type = mimeInput

C15_Witness ==
    /\ codecOp = "toFile"
    /\ payloadInput = <<255, 0, 137>>
    /\ mimeInput = <<"image/png">>
    /\ codecResult.state = "resolved"
    /\ codecResult.value.type = <<"image/png">>

\* the uploaded two-byte image as an inline part: base64 of 137, 80 by hand
OriginalUploadPart ==
    [inlineData |-> [data |-> <<"i", "V", "A", "=">>, mimeType |-> <<"image/png">>]]

\* C16: the request of frame 0 carries the original upload and states the
\* previous angle 0; the request of frame i >= 1 carries exactly the image
\* returned for frame i-1 (the one stored at index i-1 of the output) and
\* states the target angle of frame i-1 as the previous angle.
C16_ChainedConditioning ==
    mode = "generate" =>
        \A k \in 2..Len(calls) :
            LET idx == calls[k].index
            IN  /\ idx = k - 2
                /\ Len(calls[k].parts) = 1
                /\ IF idx = 0
                   THEN /\ calls[k].parts[1] = OriginalUploadPart
                        /\ calls[k].prompt.previousAngle = 0
                   ELSE /\ calls[k].parts[1] = ImagePart(k - 1, 1)
                        /\ calls[k].parts[1] = extractInlineData(responses[k - 1])
                        /\ inlineDataToDataUrl(calls[k].parts[1]) = generatedImages[idx]
                        /\ calls[k].prompt.previousAngle = AngleTable[numFrames][idx]
                        /\ calls[k].prompt.previousAngle = calls[k - 1].prompt.targetAngle

C16_Witness ==
    /\ mode = "generate" /\ numFrames = 7 /\ Len(calls) = 4
    /\ calls[4].parts[1] = ImagePart(3, 1)
    /\ calls[4].prompt.previousAngle = 103

AwaitingRequest == pc \in {"analysisCall", "frameCall", "interpCall"}

\* C17: within one call of generate360Images or interpolateFrames at most one
\* request is unanswered at any time, and that only while the function is
\* suspended on it: every earlier request was answered before the next one
\* was issued.
C17_OneRequestOutstanding ==
    mode \in {"generate", "interpolate"} =>
        /\ Len(calls) - Len(responses) \in {0, 1}
        /\ Len(calls) > Len(responses) <=> AwaitingRequest

C17_Witness ==
    /\ mode = "interpolate" /\ Len(baseImages) >= 3
    /\ Len(calls) = 3 /\ Len(responses) = 2 /\ pc = "interpCall"

\* the string is a data URL parseDataUrl accepts
Parses(url) == url \notin {EmptyFrame, NotAUrl}

\* the pairs both of whose frames parse
ParsingPairs ==
    {idx \in 0..(Len(baseImages) - 1) :
        /\ Parses(baseImages[idx + 1])
        /\ Parses(baseImages[((idx + 1) % Len(baseImages)) + 1])}

\* no two requests of the run are for the same frame or pair
IndexRequestedOnce ==
    \A j \in 1..Len(calls) : \A k \in 1..Len(calls) :
        (calls[j].kind = calls[k].kind /\ calls[j].index = calls[k].index) => j = k

\* C18 as stated, its last part: an interpolation run over M frames issues
\* exactly M requests whatever their outcomes.
C18_ExactlyMCalls ==
    InterpResolved => Len(calls) = Len(baseImages)

\* C18: there are no retries.  In a generation run each frame index is
\* requested at most once, no request is issued after the first frame request
\* that fails, and a run that resolves has issued exactly N+1 requests.  An
\* interpolation run over M frames issues one request for each pair whose two
\* frames parse and none for the others: exactly M when every frame parses,
\* fewer otherwise, whatever the requests answer.
C18_NoRetries ==
    /\ mode = "generate" =>
          /\ IndexRequestedOnce
          /\ \A k \in 2..Len(responses) :
                 ~GaveImage(responses[k]) => (Len(calls) = k /\ pc = "done")
          /\ GenResolved => Len(calls) = numFrames + 1
    /\ mode = "interpolate" =>
          /\ IndexRequestedOnce
          /\ \A k \in 1..Len(calls) : calls[k].index \in ParsingPairs
          /\ Len(calls) <= Len(baseImages)
          /\ InterpResolved =>
                 /\ Len(calls) = Cardinality(ParsingPairs)
                 /\ (\A k \in 1..Len(baseImages) : Parses(baseImages[k]))
                        => Len(calls) = Len(baseImages)

C18_Witness ==
    /\ InterpResolved
    /\ Len(baseImages) = 3
    /\ Len(calls) = 1
    /\ ~GaveImage(responses[1])

\* the text the analysis request answered, without the blanks around it
ReturnedMasterPrompt ==
    IF "text" \in DOMAIN responses[1] THEN Trim(responses[1].text) ELSE <<>>

\* the places of a frame prompt where the two angles stand
AnglePlaces == {Len(ReturnedMasterPrompt) + 2, Len(ReturnedMasterPrompt) + 4}

\* C19: every frame prompt of a run starts with the master prompt the one
\* analysis request returned, unchanged, and any two frame prompts of the run
\* differ only in the previous-angle and target-angle values.
C19_MasterPromptFrozen ==
    (mode = "generate" /\ Len(calls) >= 2) =>
        /\ \A k \in 1..Len(calls) : calls[k].kind = "analysis" <=> k = 1
        /\ masterPrompt = ReturnedMasterPrompt
        /\ \A k \in 2..Len(calls) :
               /\ SubSeq(calls[k].text, 1, Len(ReturnedMasterPrompt)) = ReturnedMasterPrompt
               /\ Len(calls[k].text) = Len(ReturnedMasterPrompt) + 5
               /\ calls[k].text[Len(ReturnedMasterPrompt) + 2]
                      = ToString(calls[k].prompt.previousAngle)
               /\ calls[k].text[Len(ReturnedMasterPrompt) + 4]
                      = ToString(calls[k].prompt.targetAngle)
        /\ \A j \in 2..Len(calls) : \A k \in 2..Len(calls) :
               \A pos \in 1..Len(calls[k].text) :
                   calls[j].text[pos] # calls[k].text[pos] => pos \in AnglePlaces

C19_Witness ==
    /\ mode = "generate" /\ Len(calls) = numFrames + 1
    /\ masterPrompt = <<"master", " ", "prompt">>
    /\ calls[2].text # calls[Len(calls)].text
    /\ SubSeq(calls[Len(calls)].text, 1, 3) = <<"master", " ", "prompt">>

\* the angle the image at index idx of the output (from 0) was generated for
AngleOfOutput(idx) == calls[idx + 2].prompt.targetAngle

\* C20 as stated: the image at index 0 of the returned sequence is the one
\* generated for the 0-degree view.
C20_IndexZeroIsZeroDegrees ==
    GenResolved => AngleOfOutput(0) = 0

\* C20: in the returned sequence the image at index idx is the one the request
\* for the angle round((idx+1)*360/N) returned; the angles increase strictly
\* with the index, from round(360/N) at index 0, which is above 0, to 360 at
\* index N-1.  No image is generated for the 0-degree view: that view is the
\* upload, which is not part of the sequence.
C20_IncreasingFromFirstStep ==
    GenResolved =>
        /\ Len(settled.value) = numFrames
        /\ \A idx \in 0..(numFrames - 1) :
               /\ settled.value[idx + 1] = FirstImageUrl(idx + 2)
               /\ calls[idx + 2].index = idx
               /\ AngleOfOutput(idx) = AngleTable[numFrames][idx + 1]
               /\ AngleOfOutput(idx) > 0
               /\ idx >= 1 => AngleOfOutput(idx - 1) < AngleOfOutput(idx)
               /\ settled.value[idx + 1] # inlineDataToDataUrl(OriginalUploadPart)
        /\ AngleOfOutput(numFrames - 1) = 360

C20_Witness ==
    /\ GenResolved /\ numFrames = FRAME_COUNT_MIN
    /\ AngleOfOutput(0) = 90
    /\ AngleOfOutput(3) = 360
    /\ settled.value[1] = FirstImageUrl(2)

\* the data URL of the second inline image of the answer to request k
SecondImageUrl(k) ==
    <<"data", ":", "image/png", ";", "base64", ",", "image", ToString(k), "2">>

\* the answers with no candidates, no parts, only text parts or an empty
\* inlineData, and the one whose only image is in its second candidate
ImagelessAnswers(k) ==
    { [candidates |-> <<>>],
      [candidates |-> <<[content |-> [parts |-> <<>>]]>>],
      [candidates |-> <<[content |-> [parts |-> <<[text |-> <<"caption">>]>>]]>>],
      [candidates |-> <<[content |-> [parts |-> <<[inlineData |-> Null],
                                                  [text |-> <<"caption">>]>>]]>>],
      ImageResponse("secondCandidate", k) }

\* C21: the image taken from an answer is the first part, in order, of the
\* first candidate that carries inline data: a frame request answered with
\* images stores the first of them, an interpolation request inserts the first
\* of them.  An answer with no candidates, no parts or only text parts gives
\* no image: the frame request then rejects the run at once, and the
\* interpolation request inserts nothing.
C21_FirstInlinePartOrNothing ==
    \A k \in 1..Len(responses) :
        (calls[k].kind \in {"frame", "interp"} /\ responses[k] # Thrown) =>
            IF responses[k] \in ImagelessAnswers(k)
            THEN /\ \A pos \in 1..Len(finalImages) :
                        finalImages[pos] \notin {FirstImageUrl(k), SecondImageUrl(k)}
                 /\ mode = "generate" =>
                        /\ k = Len(calls)
                        /\ pc = "done"
                        /\ settled.state = "rejected"
                        /\ Has(settled.message, " generation failed: No image data returned.")
                        /\ Len(generatedImages) = k - 2
            ELSE /\ mode = "generate" => generatedImages[k - 1] = FirstImageUrl(k)
                 /\ mode = "interpolate" =>
                        /\ \E pos \in 2..Len(finalImages) :
                               /\ finalImages[pos] = FirstImageUrl(k)
                               /\ finalImages[pos - 1] = baseImages[calls[k].index + 1]
                        /\ \A pos \in 1..Len(finalImages) :
                               finalImages[pos] # SecondImageUrl(k)

C21_Witness ==
    /\ mode = "interpolate" /\ pc = "done" /\ Len(responses) = 3
    /\ responses[1] = [candidates |-> <<[content |-> [parts |-> <<>>]]>>]
    /\ responses[2] \notin ImagelessAnswers(2) /\ responses[2] # Thrown
    /\ responses[3] = [candidates |-> <<>>]
    /\ Len(finalImages) = 4

\* the function waits for a file read or for the answer to a request
Suspended ==
    pc \in {"analysisRead", "analysisCall", "frameRead", "frameCall", "interpCall"}

\* C22 as stated, for interpolateFrames: a call of it ends only by resolving.
C22_InterpolationAlwaysResolves ==
    (mode = "interpolate" /\ pc = "done") => settled.state = "resolved"

\* C22: provided every request and file read ends, every call of
\* generate360Images eventually resolves with the frames or rejects, and every
\* call of interpolateFrames eventually resolves, or rejects with the
\* configuration error when no API key is configured; a call is pending only
\* while it waits for a file read or a request.
C22_EveryRunSettles ==
    /\ (mode = "generate") ~>
           (mode = "generate" /\ pc = "done" /\ settled.state \in {"resolved", "rejected"})
    /\ (mode = "interpolate" /\ getGeminiClient) ~> InterpResolved
    /\ (mode = "interpolate" /\ ~getGeminiClient) ~>
           (mode = "interpolate" /\ pc = "done" /\ settled = Rejected(ConfigError))
    /\ [](mode \in {"generate", "interpolate"} =>
             /\ settled = Pending <=> Suspended
             /\ ~Suspended <=> pc = "done")

C22_Witness ==
    /\ InterpResolved
    /\ Len(baseImages) = MaxBase
    /\ Len(responses) = MaxBase
    /\ \A k \in 1..Len(responses) : responses[k] = Thrown

\* C23: buildBackgroundInstruction returns for every option, listed or not, and
\* never an empty instruction; for a value outside the enum it returns the
\* first sentence of the instruction for "Original", without the second one
\* (" Do not change it.").
C23_TotalWithShortDefault ==
    instrResult # Pending =>
        /\ instrResult.state = "resolved"
        /\ instrResult.value # <<>>
        /\ instrOption \in UnlistedOptions =>
                /\ instrResult.value \o <<" Do not change it.">>
                        = buildBackgroundInstruction("Original", instrCustom)
                /\ instrResult.value # buildBackgroundInstruction("Original", instrCustom)

\* C23 as stated: for a value outside the enum the instruction is the one
\* returned for "Original".
C23_DefaultIsOriginalWording ==
    (instrResult # Pending /\ instrOption \in UnlistedOptions) =>
        instrResult.value = buildBackgroundInstruction("Original", instrCustom)

C23_Witness ==
    /\ instrResult # Pending
    /\ instrOption = "Blurred"
    /\ instrCustom = <<"sunny beach", " ", "a">>
    /\ instrResult.value = <<"Preserve the exact background from the uploaded image.">>

GenerationEnded == lastHandler \in {"generateResolved", "generateRejected"}

InterpolationEnded == lastHandler \in {"interpolateResolved", "interpolateRejected"}

\* C25: right after the continuation of handleGenerate ran for a rejected
\* generate360Images, the error is the message of the rejection, the frame
\* sequence is empty and the loading progress is null; right after a
\* generation or an interpolation run ended, either way, the loading progress
\* is null.
C25_RejectionShownVerbatim ==
    /\ lastHandler = "generateRejected" =>
            /\ lastOutcome.state = "rejected"
            /\ appError = [message |-> lastOutcome.message]
            /\ appImages = <<>>
            /\ loadingProgress = Null
    /\ (GenerationEnded \/ InterpolationEnded) => loadingProgress = Null

C25_Witness ==
    /\ lastHandler = "generateRejected"
    /\ appError = [message |-> FrameErrorMessage(0, 90, Thrown.thrown)]
    /\ appImageFile = [name |-> "b.png"]

\* C26: the frames on display were all made from the selected file.
C26_FramesFromSelectedImage ==
    (loadingProgress = Null /\ appError = Null /\ appImages # <<>>) =>
        \A k \in 1..Len(appImages) : appImages[k].source = appImageFile

\* C27: at most one awaited service call at a time; while one is pending the
\* Generate button is disabled and the Double Frames button is not enabled;
\* either button is enabled only with loadingProgress null and isInterpolating
\* false.
C27_OneRunInFlight ==
    /\ Len(pendingRuns) <= 1
    /\ pendingRuns # <<>> => (loadingProgress # Null /\ ~DoubleFramesEnabled)
    /\ (appImageFile # Null /\ pendingRuns # <<>>) => isGenerateDisabled
    /\ (~isGenerateDisabled \/ DoubleFramesEnabled) =>
            (loadingProgress = Null /\ ~isInterpolating)
    /\ isInterpolating <=>
            (pendingRuns # <<>> /\ pendingRuns[1].fn = "interpolateFrames")

C27_Witness ==
    /\ Len(pendingRuns) = 1
    /\ pendingRuns[1].fn = "interpolateFrames"
    /\ lastHandler = "handleImageUpload"
    /\ appImageFile # Null
    /\ isGenerateDisabled

\* num/den rounded to the nearest whole number, a half going to the even one
RoundHalfEven(num, den) ==
    LET q == num \div den
        r == num % den
    IN  IF 2 * r < den THEN q
        ELSE IF 2 * r > den THEN q + 1
        ELSE IF q % 2 = 0 THEN q ELSE q + 1

FrameRequests == { k \in 1..Len(calls) : calls[k].kind = "frame" }

\* C28: for every frame request of a run with N frames, N in 4..12, the exact
\* angle (i+1)*360/N is not a whole number plus one half, the angle asked for
\* is that value rounded half-to-even as well as half-up, it is above the
\* angle of the request before it, and the angle of the last frame is 360.
C28_RoundingUnambiguous ==
    mode = "generate" =>
        \A k \in FrameRequests :
            LET idx == calls[k].index
                asked == calls[k].prompt.targetAngle
            IN  /\ numFrames \in FRAME_COUNT_MIN..FRAME_COUNT_MAX
                /\ idx \in 0..(numFrames - 1)
                /\ 2 * (((idx + 1) * 360) % numFrames) # numFrames
                /\ asked = RoundHalfEven((idx + 1) * 360, numFrames)
                /\ asked = ((2 * (idx + 1) * 360) + numFrames) \div (2 * numFrames)
                /\ asked > calls[k].prompt.previousAngle
                /\ \A h \in FrameRequests :
                        calls[h].index < idx => calls[h].prompt.targetAngle < asked
                /\ idx = numFrames - 1 => asked = 360

C28_Witness ==
    /\ mode = "generate" /\ numFrames = 7
    /\ Cardinality(FrameRequests) = 7
    /\ \E k \in FrameRequests :
            /\ calls[k].index = 1 /\ calls[k].prompt.targetAngle = 103
            /\ ((1 + 1) * 360) % 7 = 6
    /\ \E k \in FrameRequests : calls[k].index = 6 /\ calls[k].prompt.targetAngle = 360

\* C29: whenever ImageDrawer holds an enhanced image it holds a drawing too.
C29_EnhancedOnlyWithDrawing ==
    enhancedImage # Null => drawing # Null

\* C30: while Viewer360 shows a list of L images, currentFrame is a whole
\* number from 0 to L-1 after every drag move, slider change and autoplay
\* tick; a step taken while playing and not dragging is an autoplay tick, and
\* it moves currentFrame to the next index, from L-1 to 0.
C30_FrameIndexInRange ==
    /\ [](viewerImages # <<>> => currentFrame \in 0..(Len(viewerImages) - 1))
    /\ [][(isPlaying /\ isPlaying' /\ ~isDragging /\ ~isDragging')
          => /\ currentFrame' = (currentFrame + 1) % Len(viewerImages)
             /\ currentFrame = Len(viewerImages) - 1 => currentFrame' = 0
             /\ currentFrame < Len(viewerImages) - 1 => currentFrame' = currentFrame + 1
         ]_vars

\* a drag to the right from frame 0 went below index 0 and came out at L-1,
\* with autoplay switched on during the drag
C30_Witness ==
    /\ Len(viewerImages) = 5
    /\ isDragging /\ isPlaying
    /\ startXRef = -7 /\ startFrameRef = 0
    /\ currentFrame = 4

====
